---- MODULE Spec2Model ----
(***************************************************************************)
(* A model of the metric-composition kernel of metametric: the set         *)
(* matching metric and its assignment solver, the per-sample metric state  *)
(* of the aggregators, and the matching witness with its hooks.            *)
(*                                                                         *)
(* Python indices are 0-based and are kept 0-based wherever they are       *)
(* visible (match triples, path components, data ids); TLA+ sequences are  *)
(* 1-based, so element i of a Python list xs is xs[i + 1] here.            *)
(* Scores are Python floats; the model draws them from small integers.     *)
(***************************************************************************)
EXTENDS Integers, Sequences, FiniteSets, TLC

\* One evaluation of a set matching metric: the compared collections, the
\* metric's constraint and inner metric, what compute returned and what
\* score_self(x) returned.
VARIABLES setX, setY, setConstraint, setInner, setPc, result, selfScore

setVars == <<setX, setY, setConstraint, setInner, setPc, result, selfScore>>

\* An aggregator and the state it owns: which aggregator was constructed,
\* each family's metric, the hooks it was given, each family's
\* SingleMetricState, and what the last call observably did.
VARIABLES aggKind, metrics, aggHooks, states, calls, completed, hookLog, lastOp, before, expected

aggVars == <<aggKind, metrics, aggHooks, states, calls, completed, hookLog, lastOp, before, expected>>

\* One evaluation of a graph matching metric followed by a run of hooks over
\* the matching it returned: the compared graphs, the metric's constraint
\* and inner metric, what compute returned, the hooks the run was given and
\* which hook invocations it made.
VARIABLES graphX, graphY, graphConstraint, graphInner, graphHooks, graphPc, graphResult, graphLog

graphVars == <<graphX, graphY, graphConstraint, graphInner, graphHooks, graphPc, graphResult, graphLog>>

\* One run of the iterative_max_matching generator: the cost matrix it was
\* given, the matrix it works on and whether that is the transpose, the dual
\* potentials, the column-to-row matching, the next row to insert, what it
\* has yielded so far and whether it is exhausted.
VARIABLES hungCost, hungW, hungTransposed, hungU, hungV, hungPred, hungRow, hungYields, hungPc

hungVars == <<hungCost, hungW, hungTransposed, hungU, hungV, hungPred, hungRow, hungYields, hungPc>>

\* One evaluation of a latent set matching metric: the compared collections
\* of records, the metric's constraint and inner metric, what compute
\* returned and what score_self(x) returned.
VARIABLES latX, latY, latConstraint, latInner, latPc, latResult, latSelf

latVars == <<latX, latY, latConstraint, latInner, latPc, latResult, latSelf>>

\* One evaluation of a NormalizedMetric over a set matching metric: the
\* compared collections, the inner metric's constraint and element metric,
\* the normalizer, what compute returned and what score_self(x) returned.
VARIABLES normX, normY, normConstraint, normInner, normalizer, normPc, normResult, normSelf

normVars == <<normX, normY, normConstraint, normInner, normalizer, normPc, normResult, normSelf>>

\* One comparison of two collections in both directions by a set or a
\* sequence matching metric: which metric, the collections, the element
\* metric, the constraint of the call on (x, y) and its outcome, the
\* constraint of the call on (y, x) and its outcome.
VARIABLES symKind, symX, symY, symInner, symConstraint, symBackConstraint, symPc, symForward, symBackward

symVars == <<symKind, symX, symY, symInner, symConstraint, symBackConstraint, symPc, symForward, symBackward>>

\* An aggregator of a metric suite with the states of its families, what
\* was last called on it, and what compute returned.
VARIABLES suiteAgg, suitePc, suiteOut

suiteVars == <<suiteAgg, suitePc, suiteOut>>

\* The element class of a collection type, how far its declaration has got,
\* and the metric derive_metric returned for the collection type.
VARIABLES deriveElem, derivePc, deriveOut

deriveVars == <<deriveElem, derivePc, deriveOut>>

\* Two paths being built, the text one was printed to, what parsing that text returned, and whether the first selects the second.
VARIABLES pathP, pathQ, pathPc, pathText, pathParsed, pathSelects

pathVars == <<pathP, pathQ, pathPc, pathText, pathParsed, pathSelects>>

\* One call of _reachability_matrix: the graph, the matrices b and c of its loop, and where the call stands.
VARIABLES reachGraph, reachB, reachC, reachPc

reachVars == <<reachGraph, reachB, reachC, reachPc>>

\* One ILPMatchingProblem: the collections and gram matrix it was built
\* from, its has_vars flag, the blocks of self.constraints, the methods
\* called so far, where the caller stands and what solve returned.
VARIABLES ilpX, ilpY, ilpGram, ilpHasVars, ilpConstraints, ilpCalled, ilpPc, ilpResult

ilpVars == <<ilpX, ilpY, ilpGram, ilpHasVars, ilpConstraints, ilpCalled, ilpPc, ilpResult>>

vars == <<setVars, aggVars, graphVars, hungVars, latVars, normVars, symVars, suiteVars, deriveVars, pathVars, reachVars, ilpVars>>

\* What an action on one of the objects leaves alone: every other object.
exceptSet == <<aggVars, graphVars, hungVars, latVars, normVars, symVars, suiteVars, deriveVars, pathVars, reachVars, ilpVars>>

exceptAgg == <<setVars, graphVars, hungVars, latVars, normVars, symVars, suiteVars, deriveVars, pathVars, reachVars, ilpVars>>

exceptGraph == <<setVars, aggVars, hungVars, latVars, normVars, symVars, suiteVars, deriveVars, pathVars, reachVars, ilpVars>>

exceptHung == <<setVars, aggVars, graphVars, latVars, normVars, symVars, suiteVars, deriveVars, pathVars, reachVars, ilpVars>>

exceptLat == <<setVars, aggVars, graphVars, hungVars, normVars, symVars, suiteVars, deriveVars, pathVars, reachVars, ilpVars>>

exceptNorm == <<setVars, aggVars, graphVars, hungVars, latVars, symVars, suiteVars, deriveVars, pathVars, reachVars, ilpVars>>

exceptSym == <<setVars, aggVars, graphVars, hungVars, latVars, normVars, suiteVars, deriveVars, pathVars, reachVars, ilpVars>>

exceptSuite == <<setVars, aggVars, graphVars, hungVars, latVars, normVars, symVars, deriveVars, pathVars, reachVars, ilpVars>>

exceptDerive == <<setVars, aggVars, graphVars, hungVars, latVars, normVars, symVars, suiteVars, pathVars, reachVars, ilpVars>>

exceptPath == <<setVars, aggVars, graphVars, hungVars, latVars, normVars, symVars, suiteVars, deriveVars, reachVars, ilpVars>>

exceptReach == <<setVars, aggVars, graphVars, hungVars, latVars, normVars, symVars, suiteVars, deriveVars, pathVars, ilpVars>>

exceptILP == <<setVars, aggVars, graphVars, hungVars, latVars, normVars, symVars, suiteVars, deriveVars, pathVars, reachVars>>

\* ------------------------------------------------------------------ bounds

\* Longest collection handed to a matching metric.
MaxLen == 2

\* Element values of the compared collections.
Vals == {1, 2}

\* Most nodes of a compared graph.
MaxNodes == 2

\* Most update_single calls made on one state between two resets.
MaxCalls == 2

\* Most rows and most columns of a cost matrix handed to the assignment
\* solver.
MaxDim == 3

\* Scores a user-provided metric function may return.
FnScores == {0, 1, 2}

\* ----------------------------------------------------------------- helpers

Min(a, b) == IF a <= b THEN a ELSE b

Max(a, b) == IF a >= b THEN a ELSE b

Range(s) == {s[k] : k \in 1..Len(s)}

RECURSIVE SumSeq(_)
SumSeq(s) == IF s = <<>> THEN 0 ELSE Head(s) + SumSeq(Tail(s))

RECURSIVE MaxSeq(_)
MaxSeq(s) == IF Len(s) = 1 THEN s[1] ELSE Max(Head(s), MaxSeq(Tail(s)))

RECURSIVE Concat(_)
Concat(ss) == IF ss = <<>> THEN <<>> ELSE Head(ss) \o Concat(Tail(ss))

\* The ascending enumeration of a finite set of integers.
RECURSIVE SortedSeq(_)
SortedSeq(S) ==
    IF S = {} THEN <<>>
    ELSE LET lo == CHOOSE a \in S : \A b \in S : a <= b
         IN <<lo>> \o SortedSeq(S \ {lo})

\* Every enumeration of a finite set, as sequences without repetition.
Orderings(S) ==
    {o \in [1..Cardinality(S) -> S] : \A a, b \in 1..Cardinality(S) : o[a] = o[b] => a = b}

Seqs(S, n) == UNION {[1..k -> S] : k \in 0..n}

\* ------------------------------------------------------------ constraint.py

ONE_TO_ONE == "1:1"

ONE_TO_MANY == "1:*"

MANY_TO_ONE == "*:1"

MANY_TO_MANY == "*:*"

MatchingConstraint == {ONE_TO_ONE, ONE_TO_MANY, MANY_TO_ONE, MANY_TO_MANY}

\* ------------------------------------------------------------------ path.py

\* A path component: an index (isInt, -1 is the wildcard) or a field name.
Index(n) == [isInt |-> TRUE, i |-> n, s |-> ""]

Field(name) == [isInt |-> FALSE, i |-> 0, s |-> name]

\* Path(): the root path.
RootPath == <<>>

is_root(p) == Len(p) = 0

prepend(p, item) == <<item>> \o p

append(p, item) == p \o <<item>>

\* (_component_covers_Untyped is the variant in which a wildcard covers a
\* component of the other kind; _component_covers_EitherSide the one in
\* which a wildcard component is covered by anything of its kind.)
_component_covers_Untyped(selector, component) ==
    \/ selector = component
    \/ selector.isInt /\ selector.i = -1
    \/ ~selector.isInt /\ selector.s = "*"

_component_covers_EitherSide(selector, component) ==
    IF selector.isInt /\ component.isInt
    THEN selector.i = component.i \/ selector.i = -1 \/ component.i = -1
    ELSE IF ~selector.isInt /\ ~component.isInt
    THEN selector.s = component.s \/ selector.s = "*" \/ component.s = "*"
    ELSE FALSE

_component_covers(selector, component) ==
    IF selector.isInt /\ component.isInt
    THEN selector.i = component.i \/ selector.i = -1
    ELSE IF ~selector.isInt /\ ~component.isInt
    THEN selector.s = component.s \/ selector.s = "*"
    ELSE FALSE

selects(self, other) ==
    /\ Len(self) = Len(other)
    /\ \A k \in 1..Len(self) : _component_covers(self[k], other[k])

\* --------------------------------------------------------------- metric.py

\* An inner (element) metric: DiscreteMetric, or MetricFromFunction over a
\* user function f given as a table.
ZeroFn == [p \in Vals \X Vals |-> 0]

DiscreteMetric == [kind |-> "discrete", f |-> ZeroFn]

MetricFromFunction(f) == [kind |-> "fn", f |-> f]

InnerMetrics == {DiscreteMetric} \cup {MetricFromFunction(f) : f \in [Vals \X Vals -> FnScores]}

\* Metric.score of an element metric: compute(x, y)[0].
InnerScore(m, a, b) ==
    IF m.kind = "discrete" THEN (IF a = b THEN 1 ELSE 0) ELSE m.f[<<a, b>>]

\* DiscreteMetric.score_self is the constant 1; MetricFromFunction inherits
\* Metric.score_self, which is score(x, x).
InnerScoreSelf(m, a) ==
    IF m.kind = "discrete" THEN 1 ELSE InnerScore(m, a, a)

\* Metric.gram_matrix: rows over xs, columns over ys.
gram_matrix(m, xs, ys) ==
    [i \in 1..Len(xs) |-> [j \in 1..Len(ys) |-> InnerScore(m, xs[i], ys[j])]]

\* A Match without its two objects: they are the objects at pred_path and
\* ref_path of the compared pair.
Match(pp, rp, s) == [pred_path |-> pp, ref_path |-> rp, score |-> s]

\* ------------------------------------------------------------- _problem.py

\* The gram matrix cell of Python indices (i, j).
Cell(m, i, j) == m[i + 1][j + 1]

NRows(m) == Len(m)

NCols(m) == Len(m[1])

Column(m, j) == [i \in 1..NRows(m) |-> m[i][j + 1]]

Row(m, i) == m[i + 1]

RECURSIVE PairSum(_, _)
PairSum(m, A) ==
    IF A = {} THEN 0
    ELSE LET p == CHOOSE q \in A : TRUE
         IN Cell(m, p[1], p[2]) + PairSum(m, A \ {p})

Injections(n, k) ==
    {f \in [0..(n - 1) -> 0..(k - 1)] : \A a, b \in 0..(n - 1) : f[a] = f[b] => a = b}

\* What scipy.optimize.linear_sum_assignment may return: an assignment of
\* min(nx, ny) row/column pairs (every row when nx <= ny, every column
\* otherwise), as a set of (row, column) pairs.
FullAssignments(nx, ny) ==
    IF nx <= ny
    THEN {{<<i, f[i]>> : i \in 0..(nx - 1)} : f \in Injections(nx, ny)}
    ELSE {{<<g[j], j>> : j \in 0..(ny - 1)} : g \in Injections(ny, nx)}

\* linear_sum_assignment(cost_matrix=m, maximize=True): the assignments of
\* maximum total; which of several optimal ones comes back is the library's
\* choice.
linear_sum_assignment(m) ==
    LET all == FullAssignments(NRows(m), NCols(m))
        totals == {PairSum(m, A) : A \in all}
        best == CHOOSE t \in totals : \A u \in totals : u <= t
    IN {A \in all : PairSum(m, A) = best}

\* numpy argmax: the first position of the maximum, as a Python index.
argmax(s) ==
    (CHOOSE k \in 1..Len(s) : s[k] = MaxSeq(s) /\ \A l \in 1..(k - 1) : s[l] # MaxSeq(s)) - 1

Triple(m, i, j) == <<i, j, Cell(m, i, j)>>

\* The ONE_TO_ONE branch: row_idx comes back ascending, so the triples are
\* in ascending row order.
SolveOneToOne(m) ==
    {[total |-> PairSum(m, A),
      matching |-> LET rows == SortedSeq({p[1] : p \in A})
                   IN [k \in 1..Len(rows) |->
                          Triple(m, rows[k], (CHOOSE p \in A : p[1] = rows[k])[2])]]
     : A \in linear_sum_assignment(m)}

\* The ONE_TO_MANY branch: per column its maximum, taken at its argmax row.
\* (SolveOneToMany_RowMax is the variant that takes row maxima instead.)
SolveOneToMany_RowMax(m) ==
    {[total |-> SumSeq([i \in 1..NRows(m) |-> MaxSeq(Row(m, i - 1))]),
      matching |-> [j \in 1..NCols(m) |-> Triple(m, argmax(Column(m, j - 1)), j - 1)]]}

SolveOneToMany(m) ==
    {[total |-> SumSeq([j \in 1..NCols(m) |-> MaxSeq(Column(m, j - 1))]),
      matching |-> [j \in 1..NCols(m) |-> Triple(m, argmax(Column(m, j - 1)), j - 1)]]}

\* The MANY_TO_ONE branch: per row its maximum, taken at its argmax column.
\* (SolveManyToOne_ColumnMax is the variant that sums column maxima instead.)
SolveManyToOne_ColumnMax(m) ==
    {[total |-> SumSeq([j \in 1..NCols(m) |-> MaxSeq(Column(m, j - 1))]),
      matching |-> [i \in 1..NRows(m) |-> Triple(m, i - 1, argmax(Row(m, i - 1)))]]}

SolveManyToOne(m) ==
    {[total |-> SumSeq([i \in 1..NRows(m) |-> MaxSeq(Row(m, i - 1))]),
      matching |-> [i \in 1..NRows(m) |-> Triple(m, i - 1, argmax(Row(m, i - 1)))]]}

\* The MANY_TO_MANY branch: every cell, rows outermost.
SolveManyToMany(m) ==
    {[total |-> SumSeq([i \in 1..NRows(m) |-> SumSeq(Row(m, i - 1))]),
      matching |-> Concat([i \in 1..NRows(m) |->
                             [j \in 1..NCols(m) |-> Triple(m, i - 1, j - 1)]])]}

\* AssignmentProblem.solve: the set of (total, matching) results it may return.
AssignmentProblem_solve(m, constraint) ==
    CASE constraint = ONE_TO_ONE -> SolveOneToOne(m)
      [] constraint = ONE_TO_MANY -> SolveOneToMany(m)
      [] constraint = MANY_TO_ONE -> SolveManyToOne(m)
      [] constraint = MANY_TO_MANY -> SolveManyToMany(m)

\* ----------------------------------------------------- matching_metrics.py

\* The root match, then one match per triple, in the order of the triples.
_matching_from_triples(score, triples) ==
    <<Match(RootPath, RootPath, score)>> \o
    [k \in 1..Len(triples) |->
        Match(prepend(RootPath, Index(triples[k][1])),
              prepend(RootPath, Index(triples[k][2])),
              triples[k][3])]

\* compute on two empty collections.
\* (BothEmptyResult_NoMatch is the variant that scores 0 and emits nothing.)
BothEmptyResult_NoMatch == [score |-> 0, matching |-> <<>>]

BothEmptyResult == [score |-> 1, matching |-> <<Match(RootPath, RootPath, 1)>>]

\* compute on exactly one empty collection.
OneEmptyResult == [score |-> 0, matching |-> <<>>]

\* The Python indices at which value k occurs in xs, ascending
\* (x_indices[k], y_indices[k]).
IndicesOf(xs, k) == SortedSeq({i \in 0..(Len(xs) - 1) : xs[i + 1] = k})

\* The number of times value k occurs in xs.
Count(xs, k) == Cardinality({i \in 1..Len(xs) : xs[i] = k})

\* The discrete one-to-one fast path scores len(set(x) & set(y)).
\* (DiscreteScore_Counter is the variant that intersects multisets instead.)
DiscreteScore_Counter(x, y) ==
    LET common == SortedSeq(Range(x) \cap Range(y))
    IN SumSeq([n \in 1..Len(common) |-> Min(Count(x, common[n]), Count(y, common[n]))])

DiscreteScore(x, y) == Cardinality(Range(x) \cap Range(y))

\* zip(x_indices[k], y_indices[k]) as element matches.
DiscreteZip(x, y, k) ==
    LET xi == IndicesOf(x, k)
        yi == IndicesOf(y, k)
    IN [n \in 1..Min(Len(xi), Len(yi)) |->
           Match(prepend(RootPath, Index(xi[n])), prepend(RootPath, Index(yi[n])), 1)]

\* The fast path's results: the root match with the score, then the zipped
\* occurrences per common value; a Python set is iterated in an order the
\* language does not fix.
DiscreteCompute(x, y) ==
    {[score |-> DiscreteScore(x, y),
      matching |-> <<Match(RootPath, RootPath, DiscreteScore(x, y))>> \o
                   Concat([n \in 1..Len(o) |-> DiscreteZip(x, y, o[n])])]
     : o \in Orderings(Range(x) \cap Range(y))}

\* SetMatchingMetric.compute: the set of (score, matching) it may return.
SetCompute(inner, constraint, x, y) ==
    IF Len(x) = 0 /\ Len(y) = 0 THEN {BothEmptyResult}
    ELSE IF Len(x) = 0 \/ Len(y) = 0 THEN {OneEmptyResult}
    ELSE IF inner.kind = "discrete" /\ constraint = ONE_TO_ONE THEN DiscreteCompute(x, y)
    ELSE {[score |-> r.total, matching |-> _matching_from_triples(r.total, r.matching)]
          : r \in AssignmentProblem_solve(gram_matrix(inner, x, y), constraint)}

\* Metric.score: compute(x, y)[0]; every result of compute carries the same score.
SetScore(inner, constraint, x, y) ==
    (CHOOSE r \in SetCompute(inner, constraint, x, y) : TRUE).score

\* SetMatchingMetric.score_self.
SetScoreSelf(inner, constraint, x) ==
    IF Len(x) = 0 THEN 1
    ELSE IF constraint = MANY_TO_MANY
    THEN LET g == gram_matrix(inner, x, x)
         IN SumSeq([i \in 1..NRows(g) |-> SumSeq(g[i])])
    ELSE IF constraint = ONE_TO_ONE
    THEN SumSeq([k \in 1..Len(x) |-> InnerScoreSelf(inner, x[k])])
    ELSE SetScore(inner, constraint, x, x)

\* ------------------------------------- one evaluation of SetMatchingMetric

NoResult == [score |-> 0, matching |-> <<>>]

SetIdle ==
    /\ setX = <<>> /\ setY = <<>>
    /\ setConstraint = ONE_TO_ONE /\ setInner = DiscreteMetric
    /\ setPc = "idle" /\ result = NoResult /\ selfScore = 0

SetInit ==
    /\ setX \in Seqs(Vals, MaxLen)
    /\ setY \in Seqs(Vals, MaxLen)
    /\ setConstraint \in MatchingConstraint
    /\ setInner \in InnerMetrics
    /\ setPc = "start"
    /\ result = NoResult
    /\ selfScore = 0

\* metric.compute(setX, setY)
Compute ==
    /\ setPc = "start"
    /\ result' \in SetCompute(setInner, setConstraint, setX, setY)
    /\ setPc' = "computed"
    /\ UNCHANGED <<setX, setY, setConstraint, setInner, selfScore>>
    /\ UNCHANGED exceptSet

\* metric.score_self(setX)
ScoreSelf ==
    /\ setPc = "computed"
    /\ selfScore' = SetScoreSelf(setInner, setConstraint, setX)
    /\ setPc' = "done"
    /\ UNCHANGED <<setX, setY, setConstraint, setInner, result>>
    /\ UNCHANGED exceptSet

SetNext == Compute \/ ScoreSelf

\* ------------------------------------------------ set matching: the claims

\* The best total over all partial one-to-one matchings of rows i.. of m
\* with the columns not in used, by exhaustive search.
RECURSIVE BestFrom(_, _, _)
BestFrom(m, i, used) ==
    IF i >= NRows(m) THEN 0
    ELSE LET skip == BestFrom(m, i + 1, used)
             free == (0..(NCols(m) - 1)) \ used
             take == {Cell(m, i, j) + BestFrom(m, i + 1, used \cup {j}) : j \in free}
         IN CHOOSE b \in take \cup {skip} : \A c \in take \cup {skip} : c <= b

\* The score the four constraints stand for, read off the gram matrix.
Expected(m, c) ==
    CASE c = ONE_TO_ONE -> BestFrom(m, 0, {})
      [] c = ONE_TO_MANY ->
            SumSeq([j \in 1..NCols(m) |->
                      CHOOSE b \in Range(Column(m, j - 1)) : \A d \in Range(Column(m, j - 1)) : d <= b])
      [] c = MANY_TO_ONE ->
            SumSeq([i \in 1..NRows(m) |->
                      CHOOSE b \in Range(m[i]) : \A d \in Range(m[i]) : d <= b])
      [] c = MANY_TO_MANY -> PairSum(m, (0..(NRows(m) - 1)) \X (0..(NCols(m) - 1)))

\* The multiset-intersection count: each value min(count in a, count in b) times.
MultisetOverlap(a, b) ==
    LET common == Range(a) \cap Range(b)
        n[S \in SUBSET common] ==
            IF S = {} THEN 0
            ELSE LET k == CHOOSE v \in S : TRUE
                 IN Min(Count(a, k), Count(b, k)) + n[S \ {k}]
    IN n[common]

Computed == setPc \in {"computed", "done"}

NonEmptyPair == Len(setX) > 0 /\ Len(setY) > 0

FastPath == setInner.kind = "discrete" /\ setConstraint = ONE_TO_ONE

ElementMatches(matching) == SelectSeq(matching, LAMBDA mt : ~is_root(mt.pred_path))

\* C1: under each of the four constraints and for any inner metric,
\* score_self(x) equals compute(x, x)[0] for every collection x, repeated
\* elements included.
C1_ScoreSelfIsComputeSelf ==
    (setPc = "done" /\ setX = setY) => selfScore = result.score

C3_EmptyCollections ==
    Computed =>
        /\ (Len(setX) = 0 /\ Len(setY) = 0) =>
              /\ result.score = 1
              /\ Len(result.matching) = 1
              /\ is_root(result.matching[1].pred_path)
              /\ is_root(result.matching[1].ref_path)
        /\ ((Len(setX) = 0) # (Len(setY) = 0)) =>
              /\ result.score = 0
              /\ result.matching = <<>>

\* compute on an empty x and a two-element y under *:* has returned.
C3_Witness ==
    /\ setPc = "computed" /\ setConstraint = MANY_TO_MANY
    /\ setX = <<>> /\ Len(setY) = 2 /\ result.score = 0 /\ result.matching = <<>>

InnerRaises(m, a, b) == m.kind = "fn" /\ <<a, b>> \notin DOMAIN m.f

\* SetMatchingMetric.compute raises when building the gram matrix does.
SetComputeRaises(inner, constraint, x, y) ==
    /\ Len(x) > 0 /\ Len(y) > 0
    /\ ~(inner.kind = "discrete" /\ constraint = ONE_TO_ONE)
    /\ \E i \in 1..Len(x), j \in 1..Len(y) : InnerRaises(inner, x[i], y[j])

\* SetMatchingMetric.score_self raises when the inner calls it makes do.
SetScoreSelfRaises(inner, constraint, x) ==
    /\ Len(x) > 0
    /\ IF constraint = ONE_TO_ONE
       THEN \E k \in 1..Len(x) : InnerRaises(inner, x[k], x[k])
       ELSE \E i, j \in 1..Len(x) : InnerRaises(inner, x[i], x[j])

\* ------------------------------------------------- Matching.run_with_hooks

\* The (match, hook) pairs a run visits: matches in emission order, and per
\* match the hooks in dictionary order whose selector selects its pred_path.
HookCalls(matching, hooks) ==
    Concat([k \in 1..Len(matching) |->
              Concat([h \in 1..Len(hooks) |->
                        IF selects(hooks[h].selector, matching[k].pred_path)
                        THEN <<[match |-> k, hook |-> h]>>
                        ELSE <<>>])])

\* The hook invocations of one run, up to and including the first that
\* raises, and whether one raised.
run_with_hooks(matching, hooks, data_id) ==
    LET visits == HookCalls(matching, hooks)
        raising == {n \in 1..Len(visits) : hooks[visits[n].hook].raises}
        last == IF raising = {} THEN Len(visits)
                ELSE CHOOSE n \in raising : \A o \in raising : n <= o
    IN [log |-> [n \in 1..last |->
                    [data_id |-> data_id,
                     hook |-> visits[n].hook,
                     match |-> visits[n].match,
                     pred_path |-> matching[visits[n].match].pred_path,
                     ref_path |-> matching[visits[n].match].ref_path,
                     score |-> matching[visits[n].match].score]],
        raised |-> raising # {}]

\* ----------------------------------------------------------------- state.py

\* SingleMetricState.__init__ and reset.
EmptyState == [preds |-> <<>>, refs |-> <<>>, matches |-> <<>>]

\* The three appends that end update_single.
AppendScores(st, sxx, syy, sxy) ==
    [preds |-> Append(st.preds, sxx),
     refs |-> Append(st.refs, syy),
     matches |-> Append(st.matches, sxy)]

\* A hook invocation as observed from outside: on which family's state, in
\* which update_single call on it since construction or reset (at.call), how
\* many of those calls had completed (at.completed), and how many samples
\* each of the three sequences held when the hook ran.
Observed(log, fam, at, st) ==
    [n \in 1..Len(log) |->
        [family |-> fam, call |-> at.call, completed |-> at.completed,
         preds_held |-> Len(st.preds), refs_held |-> Len(st.refs),
         matches_held |-> Len(st.matches),
         data_id |-> log[n].data_id, hook |-> log[n].hook,
         pred_path |-> log[n].pred_path]]

\* The hooks run on the matching before the scores are appended, with
\* data_id = len(self.matches).
\* (HooksThenAppend_PredsFirst is the variant that appends to preds before
\* the hooks run; HooksThenAppend_Swapped the one that appends all three
\* before the hooks run.)
HooksThenAppend_PredsFirst(st, hooks, fam, at, sxx, syy, r) ==
    LET run == IF hooks # <<>>
               THEN run_with_hooks(r.matching, hooks, Len(st.matches))
               ELSE [log |-> <<>>, raised |-> FALSE]
        early == [st EXCEPT !.preds = Append(@, sxx)]
    IN [state |-> IF run.raised THEN early ELSE AppendScores(st, sxx, syy, r.score),
        log |-> Observed(run.log, fam, at, early),
        outcome |-> IF run.raised THEN "hook_error" ELSE "ok"]

HooksThenAppend_Swapped(st, hooks, fam, at, sxx, syy, r) ==
    LET app == AppendScores(st, sxx, syy, r.score)
        run == IF hooks # <<>>
               THEN run_with_hooks(r.matching, hooks, Len(app.matches))
               ELSE [log |-> <<>>, raised |-> FALSE]
    IN [state |-> app,
        log |-> Observed(run.log, fam, at, app),
        outcome |-> IF run.raised THEN "hook_error" ELSE "ok"]

HooksThenAppend(st, hooks, fam, at, sxx, syy, r) ==
    LET run == IF hooks # <<>>
               THEN run_with_hooks(r.matching, hooks, Len(st.matches))
               ELSE [log |-> <<>>, raised |-> FALSE]
    IN [state |-> IF run.raised THEN st ELSE AppendScores(st, sxx, syy, r.score),
        log |-> Observed(run.log, fam, at, st),
        outcome |-> IF run.raised THEN "hook_error" ELSE "ok"]

\* SingleMetricState.update_single: the results it may have, each the state
\* it leaves, the hook invocations it made and how it ended.
\* (update_single_EagerAppend is the variant that appends score_self(pred)
\* to preds before it calls compute.)
update_single_EagerAppend(st, metric, hooks, fam, at, pred, ref) ==
    IF SetScoreSelfRaises(metric.inner, metric.constraint, pred)
    THEN {[state |-> st, log |-> <<>>, outcome |-> "metric_error"]}
    ELSE IF \/ SetScoreSelfRaises(metric.inner, metric.constraint, ref)
            \/ SetComputeRaises(metric.inner, metric.constraint, pred, ref)
    THEN {[state |-> [st EXCEPT !.preds =
                         Append(@, SetScoreSelf(metric.inner, metric.constraint, pred))],
           log |-> <<>>, outcome |-> "metric_error"]}
    ELSE {HooksThenAppend(st, hooks, fam, at,
                          SetScoreSelf(metric.inner, metric.constraint, pred),
                          SetScoreSelf(metric.inner, metric.constraint, ref), r)
          : r \in SetCompute(metric.inner, metric.constraint, pred, ref)}

update_single(st, metric, hooks, fam, at, pred, ref) ==
    IF \/ SetScoreSelfRaises(metric.inner, metric.constraint, pred)
       \/ SetScoreSelfRaises(metric.inner, metric.constraint, ref)
       \/ SetComputeRaises(metric.inner, metric.constraint, pred, ref)
    THEN {[state |-> st, log |-> <<>>, outcome |-> "metric_error"]}
    ELSE {HooksThenAppend(st, hooks, fam, at,
                          SetScoreSelf(metric.inner, metric.constraint, pred),
                          SetScoreSelf(metric.inner, metric.constraint, ref), r)
          : r \in SetCompute(metric.inner, metric.constraint, pred, ref)}

\* zip(preds, refs): pairs up to the shorter of the two.
Zip(preds, refs) == [k \in 1..Min(Len(preds), Len(refs)) |-> <<preds[k], refs[k]>>]

\* An aggregate: every family's state, its count of update_single calls and
\* its count of update_single calls that completed.
\* A result: the aggregate left, the hook invocations made, how it ended.
Begin(ag) == {[ag |-> ag, log |-> <<>>, outcome |-> "ok"]}

\* Sequencing: step F runs on every result that has not raised.
AndThen(outs, F(_)) ==
    UNION {IF o.outcome # "ok" THEN {o}
           ELSE {[r EXCEPT !.log = o.log \o r.log] : r \in F(o.ag)}
           : o \in outs}

\* state.update_single(pred, ref, hooks) on the state of family fam.
StateUpdateSingle(ag, ms, hooks, fam, pred, ref) ==
    {[ag |-> [states |-> [ag.states EXCEPT ![fam] = o.state],
              calls |-> [ag.calls EXCEPT ![fam] = @ + 1],
              completed |-> [ag.completed EXCEPT ![fam] = IF o.outcome = "ok" THEN @ + 1 ELSE @]],
      log |-> o.log, outcome |-> o.outcome]
     : o \in update_single(ag.states[fam], ms[fam], hooks, fam,
                           [call |-> ag.calls[fam], completed |-> ag.completed[fam]],
                           pred, ref)}

\* MetricState.update_batch on the state of family fam: update_single over
\* the zipped pairs, in order.
RECURSIVE StateUpdatePairs(_, _, _, _, _)
StateUpdatePairs(ag, ms, hooks, fam, pairs) ==
    IF pairs = <<>> THEN Begin(ag)
    ELSE AndThen(StateUpdateSingle(ag, ms, hooks, fam, pairs[1][1], pairs[1][2]),
                 LAMBDA a : StateUpdatePairs(a, ms, hooks, fam, Tail(pairs)))

\* (StateUpdateBatch_Reversed is the variant that walks the pairs from the
\* last to the first.)
StateUpdateBatch_Reversed(ag, ms, hooks, fam, preds, refs) ==
    LET pairs == Zip(preds, refs)
    IN StateUpdatePairs(ag, ms, hooks, fam,
                        [k \in 1..Len(pairs) |-> pairs[Len(pairs) + 1 - k]])

StateUpdateBatch(ag, ms, hooks, fam, preds, refs) ==
    StateUpdatePairs(ag, ms, hooks, fam, Zip(preds, refs))

\* MultipleMetricStates.update_single: every sub-state in dictionary order.
RECURSIVE MultiUpdateSingle(_, _, _, _, _, _)
MultiUpdateSingle(ag, ms, hooks, fams, pred, ref) ==
    IF fams = <<>> THEN Begin(ag)
    ELSE AndThen(StateUpdateSingle(ag, ms, hooks, fams[1], pred, ref),
                 LAMBDA a : MultiUpdateSingle(a, ms, hooks, Tail(fams), pred, ref))

\* MultipleMetricStates.update_batch: the whole batch on every sub-state in
\* dictionary order.
RECURSIVE MultiUpdateBatch(_, _, _, _, _, _)
MultiUpdateBatch(ag, ms, hooks, fams, preds, refs) ==
    IF fams = <<>> THEN Begin(ag)
    ELSE AndThen(StateUpdateBatch(ag, ms, hooks, fams[1], preds, refs),
                 LAMBDA a : MultiUpdateBatch(a, ms, hooks, Tail(fams), preds, refs))

\* ----------------------------------------------------------------- graph.py

\* A graph: its nodes() as the list of their labels, and its edges as pairs
\* (i, j) of Python indices into that list, j being a successor of i.
\* _adjacency_matrix as a boolean matrix over those indices.
_adjacency_matrix(graph) ==
    [p \in (0..(Len(graph.nodes) - 1)) \X (0..(Len(graph.nodes) - 1)) |-> p \in graph.edges]

\* b @ b on boolean matrices over 0..n-1.
\* (BoolSquare_Unchanged is the variant that returns b.)
BoolSquare_Unchanged(b, n) == b

BoolSquare(b, n) ==
    [p \in (0..(n - 1)) \X (0..(n - 1)) |->
        \E k \in 0..(n - 1) : b[<<p[1], k>>] /\ b[<<k, p[2]>>]]

\* The loop of _reachability_matrix: square until nothing changes.
RECURSIVE SquareToFixpoint(_, _)
SquareToFixpoint(b, n) ==
    LET c == BoolSquare(b, n)
    IN IF c = b THEN c ELSE SquareToFixpoint(c, n)

\* (_reachability_matrix_NoEye is the variant that squares a alone.)
_reachability_matrix_NoEye(graph) ==
    SquareToFixpoint(_adjacency_matrix(graph), Len(graph.nodes))

\* _reachability_matrix: eye + a, squared to its fixed point.
_reachability_matrix(graph) ==
    LET n == Len(graph.nodes)
        a == _adjacency_matrix(graph)
        b == [p \in (0..(n - 1)) \X (0..(n - 1)) |-> (p[1] = p[2]) \/ a[p]]
    IN SquareToFixpoint(b, n)

\* ------------------------------------------------------------------ _ilp.py

\* ConstraintBuilder.index_pair: the column of t[i, j].
index_pair(n_y, i, j) == i * n_y + j

\* ConstraintBuilder.index_var_pair: the column of s[i, j].
index_var_pair(n_x, n_y, n_y_vars, i, j) == n_x * n_y + i * n_y_vars + j

\* A constraint row: the columns with coefficient 1, those with coefficient
\* -1, and the upper bound.
ConstraintRow(plus, minus, ub) == [plus |-> plus, minus |-> minus, ub |-> ub]

\* One row per column j of the item block: sum over i of t[i, j].
_get_one_to_many_constraint_matrix(n_x, n_y) ==
    [r \in 1..n_y |-> {index_pair(n_y, i, r - 1) : i \in 0..(n_x - 1)}]

\* One row per row i of the item block: sum over j of t[i, j].
_get_many_to_one_constraint_matrix(n_x, n_y) ==
    [r \in 1..n_x |-> {index_pair(n_y, r - 1, j) : j \in 0..(n_y - 1)}]

_get_one_to_one_constraint_matrix(n_x, n_y) ==
    _get_one_to_many_constraint_matrix(n_x, n_y) \o _get_many_to_one_constraint_matrix(n_x, n_y)

\* MatchingConstraintBuilder.build: rows <= 1 on the item block, none for
\* MANY_TO_MANY.
MatchingConstraintBuilder(n_x, n_y, constraint) ==
    LET m == CASE constraint = ONE_TO_ONE -> _get_one_to_one_constraint_matrix(n_x, n_y)
               [] constraint = ONE_TO_MANY -> _get_one_to_many_constraint_matrix(n_x, n_y)
               [] constraint = MANY_TO_ONE -> _get_many_to_one_constraint_matrix(n_x, n_y)
               [] constraint = MANY_TO_MANY -> <<>>
    IN [r \in 1..Len(m) |-> ConstraintRow(m[r], {}, 1)]

\* The pairs (u, v) with a positive gram cell, u outermost.
PossibleMatchingPairs(n_x, n_y, gram) ==
    SelectSeq(Concat([u \in 1..n_x |-> [v \in 1..n_y |-> <<u - 1, v - 1>>]]),
              LAMBDA p : Cell(gram, p[1], p[2]) > 0)

\* MonotonicityConstraintBuilder.build: for every two possible pairs whose
\* reachability differs between the graphs, t[u0, v0] + t[u1, v1] <= 1.
MonotonicityConstraintBuilder(n_x, n_y, gram, x_reachability, y_reachability) ==
    LET pairs == PossibleMatchingPairs(n_x, n_y, gram)
    IN Concat([a \in 1..Len(pairs) |->
         Concat([b \in 1..Len(pairs) |->
            IF x_reachability[<<pairs[a][1], pairs[b][1]>>]
                 # y_reachability[<<pairs[a][2], pairs[b][2]>>]
            THEN <<ConstraintRow({index_pair(n_y, pairs[a][1], pairs[a][2]),
                                  index_pair(n_y, pairs[b][1], pairs[b][2])}, {}, 1)>>
            ELSE <<>>])])

\* A 0/1 point, given as the set of columns at 1, satisfies a row.
Satisfies(point, row) ==
    Cardinality(point \cap row.plus) - Cardinality(point \cap row.minus) <= row.ub

\* The objective at a point: the gram cells of the selected item pairs; the
\* variable block has coefficient 0.
Objective(point, n_x, n_y, gram) ==
    PairSum(gram, {p \in (0..(n_x - 1)) \X (0..(n_y - 1)) : index_pair(n_y, p[1], p[2]) \in point})

\* scipy.optimize.milp with bounds [0, 1] and every variable integer: a
\* feasible point of maximum objective; which of several comes back is the
\* library's choice.
milp(n_cols, n_x, n_y, gram, constraints) ==
    LET feasible == {pt \in SUBSET (0..(n_cols - 1)) :
                        \A r \in 1..Len(constraints) : Satisfies(pt, constraints[r])}
        values == {Objective(pt, n_x, n_y, gram) : pt \in feasible}
        best == CHOOSE v \in values : \A w \in values : w <= v
    IN {pt \in feasible : Objective(pt, n_x, n_y, gram) = best}

\* The matching listed from a solution: i outermost, j innermost.
\* (SolutionTriples_ColumnMajor is the variant with j outermost.)
SolutionTriples_ColumnMajor(point, n_x, n_y, gram) ==
    SelectSeq(Concat([j \in 1..n_y |-> [i \in 1..n_x |-> Triple(gram, i - 1, j - 1)]]),
              LAMBDA t : index_pair(n_y, t[1], t[2]) \in point)

SolutionTriples(point, n_x, n_y, gram) ==
    SelectSeq(Concat([i \in 1..n_x |-> [j \in 1..n_y |-> Triple(gram, i - 1, j - 1)]]),
              LAMBDA t : index_pair(n_y, t[1], t[2]) \in point)

\* ILPMatchingProblem.solve: the (objective, matching) results it may return.
ILPMatchingProblem_solve(n_x, n_y, n_x_vars, n_y_vars, gram, constraints) ==
    {[total |-> Objective(pt, n_x, n_y, gram),
      matching |-> SolutionTriples(pt, n_x, n_y, gram)]
     : pt \in milp(n_x * n_y + n_x_vars * n_y_vars, n_x, n_y, gram, constraints)}

\* GraphMatchingMetric.compute: the (score, matching) results it may return.
GraphCompute(inner, constraint, x, y) ==
    LET n_x == Len(x.nodes)
        n_y == Len(y.nodes)
        gram == gram_matrix(inner, x.nodes, y.nodes)
        rows == MatchingConstraintBuilder(n_x, n_y, constraint)
                  \o MonotonicityConstraintBuilder(n_x, n_y, gram,
                        _reachability_matrix(x), _reachability_matrix(y))
    IN {[score |-> r.total, matching |-> _matching_from_triples(r.total, r.matching)]
        : r \in ILPMatchingProblem_solve(n_x, n_y, 0, 0, gram, rows)}

\* ----------------------------------- one evaluation of GraphMatchingMetric

\* The first k edges of the ring 0 -> 1 -> ... -> n-1 -> 0: no edge, a
\* chain, or a cycle (a self-loop when n = 1).
RingPrefix(n, k) == {<<i, (i + 1) % n>> : i \in 0..(k - 1)}

\* The compared graphs: every labelling of up to MaxNodes nodes, under every
\* prefix of the ring.
Graphs ==
    UNION {{[nodes |-> ns, edges |-> RingPrefix(Len(ns), k)] : k \in 0..Len(ns)}
           : ns \in {s \in Seqs(Vals, MaxNodes) : Len(s) > 0}}

\* Inner metrics of the compared graphs: DiscreteMetric, and a user function
\* that scores equal labels 2 and different labels 1.
GraphInnerMetrics ==
    {DiscreteMetric,
     MetricFromFunction([p \in Vals \X Vals |-> IF p[1] = p[2] THEN 2 ELSE 1])}

\* The hooks of a run, in dictionary order; none raises.
GraphHookChoices ==
    {<<[selector |-> <<Index(-1)>>, raises |-> FALSE]>>,
     <<[selector |-> RootPath, raises |-> FALSE],
       [selector |-> <<Index(0)>>, raises |-> FALSE],
       [selector |-> <<Field("*")>>, raises |-> FALSE]>>,
     <<[selector |-> <<Index(1)>>, raises |-> FALSE],
       [selector |-> <<Index(-1)>>, raises |-> FALSE]>>}

NoGraph == [nodes |-> <<>>, edges |-> {}]

GraphIdle ==
    /\ graphX = NoGraph
    /\ graphY = NoGraph
    /\ graphConstraint = ONE_TO_ONE
    /\ graphInner = DiscreteMetric
    /\ graphHooks = <<>>
    /\ graphPc = "idle"
    /\ graphResult = NoResult
    /\ graphLog = <<>>

GraphInit ==
    /\ graphX \in Graphs
    /\ graphY \in Graphs
    /\ graphConstraint \in MatchingConstraint
    /\ graphInner \in GraphInnerMetrics
    /\ graphHooks = <<>>
    /\ graphPc = "start"
    /\ graphResult = NoResult
    /\ graphLog = <<>>

\* metric.compute(x, y)
Graph_compute ==
    /\ graphPc = "start"
    /\ \E r \in GraphCompute(graphInner, graphConstraint, graphX, graphY) :
          graphResult' = r
    /\ graphPc' = "computed"
    /\ UNCHANGED <<graphX, graphY, graphConstraint, graphInner, graphHooks, graphLog>>
    /\ UNCHANGED exceptGraph

\* matching.run_with_hooks(hooks)
Graph_run_with_hooks ==
    /\ graphPc = "computed"
    /\ \E hooks \in GraphHookChoices :
          /\ graphHooks' = hooks
          /\ graphLog' = run_with_hooks(graphResult.matching, hooks, 0).log
    /\ graphPc' = "hooked"
    /\ UNCHANGED <<graphX, graphY, graphConstraint, graphInner, graphResult>>
    /\ UNCHANGED exceptGraph

GraphNext ==
    \/ Graph_compute
    \/ Graph_run_with_hooks

\* ------------------------------------------------------------ metric_suite.py

\* The samples fed to the aggregators; 3 is a value the user function of
\* UserOneToMany was not written for.
AggItems == {<<1>>, <<1, 2>>, <<2, 3>>}

DiscreteOneToOne == [inner |-> DiscreteMetric, constraint |-> ONE_TO_ONE]

UserOneToMany ==
    [inner |-> MetricFromFunction([p \in Vals \X Vals |-> IF p[1] = p[2] THEN 2 ELSE 1]),
     constraint |-> ONE_TO_MANY]

\* The hooks an aggregator may be constructed with: none; one recording hook
\* on every element; a recording hook on the root and a raising hook on the
\* element at index 1.
HookChoices ==
    {<<>>,
     <<[selector |-> <<Index(-1)>>, raises |-> FALSE]>>,
     <<[selector |-> RootPath, raises |-> FALSE],
       [selector |-> <<Index(1)>>, raises |-> TRUE]>>}

\* The sub-states of the aggregator's state, in dictionary order.
Families == IF aggKind = "single" THEN <<"a">> ELSE <<"a", "b">>

Aggregate == [states |-> states, calls |-> calls, completed |-> completed]

NoOp == [op |-> "none", outcome |-> "ok", mismatch |-> FALSE]

AggIdle ==
    /\ aggKind = "none" /\ metrics = <<>> /\ aggHooks = <<>>
    /\ states = <<>> /\ calls = <<>> /\ completed = <<>>
    /\ hookLog = <<>> /\ lastOp = NoOp /\ before = <<>> /\ expected = {}

\* MetricFamily.new / MultipleMetricFamilies.new: a fresh aggregator.
AggInit ==
    /\ aggKind \in {"single", "multi"}
    /\ metrics \in IF aggKind = "single"
                   THEN {[f \in {"a"} |-> m] : m \in {DiscreteOneToOne, UserOneToMany}}
                   ELSE {[f \in {"a", "b"} |-> IF f = "a" THEN DiscreteOneToOne ELSE UserOneToMany]}
    /\ aggHooks \in HookChoices
    /\ states = [f \in DOMAIN metrics |-> EmptyState]
    /\ calls = [f \in DOMAIN metrics |-> 0]
    /\ completed = [f \in DOMAIN metrics |-> 0]
    /\ hookLog = <<>>
    /\ lastOp = NoOp
    /\ before = states
    /\ expected = {}

Room == MaxCalls - calls["a"]

\* What the call leaves behind, o being the result it had.
Leaves(o, op, mismatch, exp) ==
    /\ states' = o.ag.states
    /\ calls' = o.ag.calls
    /\ completed' = o.ag.completed
    /\ hookLog' = o.log
    /\ lastOp' = [op |-> op, outcome |-> o.outcome, mismatch |-> mismatch]
    /\ before' = states
    /\ expected' = exp
    /\ UNCHANGED <<aggKind, metrics, aggHooks>>
    /\ UNCHANGED exceptAgg

\* Calling the aggregator's update_single on each pair in order, stopping at
\* the first call that raises.
RECURSIVE SinglesInOrder(_, _)
SinglesInOrder(ag, pairs) ==
    IF pairs = <<>> THEN Begin(ag)
    ELSE AndThen(IF aggKind = "single"
                 THEN StateUpdateSingle(ag, metrics, aggHooks, "a", pairs[1][1], pairs[1][2])
                 ELSE MultiUpdateSingle(ag, metrics, aggHooks, Families, pairs[1][1], pairs[1][2]),
                 LAMBDA a : SinglesInOrder(a, Tail(pairs)))

ExpectedOf(preds, refs) == {o.ag.states : o \in SinglesInOrder(Aggregate, Zip(preds, refs))}

\* Aggregator.update_single of a MetricFamilyAggregator.
Single_update_single ==
    /\ aggKind = "single" /\ Room >= 1
    /\ \E pred \in AggItems, ref \in AggItems :
         \E o \in StateUpdateSingle(Aggregate, metrics, aggHooks, "a", pred, ref) :
            Leaves(o, "update_single", FALSE, {})

\* Aggregator.update_batch of a MetricFamilyAggregator.
Single_update_batch ==
    /\ aggKind = "single"
    /\ \E preds \in Seqs(AggItems, Room), refs \in Seqs(AggItems, Room) :
         \E o \in StateUpdateBatch(Aggregate, metrics, aggHooks, "a", preds, refs) :
            Leaves(o, "update_batch", Len(preds) # Len(refs), ExpectedOf(preds, refs))

\* Aggregator.reset.
Reset ==
    /\ aggKind \in {"single", "multi"}
    /\ lastOp.op # "none"
    /\ states' = [f \in DOMAIN states |-> EmptyState]
    /\ calls' = [f \in DOMAIN calls |-> 0]
    /\ completed' = [f \in DOMAIN completed |-> 0]
    /\ hookLog' = <<>>
    /\ lastOp' = [op |-> "reset", outcome |-> "ok", mismatch |-> FALSE]
    /\ before' = states'
    /\ expected' = {}
    /\ UNCHANGED <<aggKind, metrics, aggHooks>>
    /\ UNCHANGED exceptAgg

\* Aggregator.update_single of a MultipleMetricFamiliesAggregator.
Multi_update_single ==
    /\ aggKind = "multi" /\ Room >= 1
    /\ \E pred \in AggItems, ref \in AggItems :
         \E o \in MultiUpdateSingle(Aggregate, metrics, aggHooks, Families, pred, ref) :
            Leaves(o, "update_single", FALSE, {})

\* Aggregator.update_batch of a MultipleMetricFamiliesAggregator.
Multi_update_batch ==
    /\ aggKind = "multi"
    /\ \E preds \in Seqs(AggItems, Room), refs \in Seqs(AggItems, Room) :
         \E o \in MultiUpdateBatch(Aggregate, metrics, aggHooks, Families, preds, refs) :
            Leaves(o, "update_batch", Len(preds) # Len(refs), ExpectedOf(preds, refs))

AggNext ==
    \/ Single_update_single
    \/ Single_update_batch
    \/ Multi_update_single
    \/ Multi_update_batch
    \/ Reset

\* --------------------------------------------------- aggregators: the claims

\* C5: after any sequence of update_single, update_batch and reset calls,
\* calls that raised included, preds, refs and matches of a
\* SingleMetricState have the same length.
C5_ParallelSequences ==
    \A f \in DOMAIN states :
        /\ Len(states[f].preds) = Len(states[f].matches)
        /\ Len(states[f].refs) = Len(states[f].matches)

\* A batch that raised in a hook after a first sample had been stored.
C5_Witness ==
    /\ aggKind = "single" /\ lastOp.op = "update_batch" /\ lastOp.outcome = "hook_error"
    /\ Len(states["a"].matches) = 1 /\ Len(hookLog) >= 2

\* C6: an update_single that raises (in score_self, in compute or in a
\* hook) leaves preds, refs and matches as they were before the call.
C6_AbortLeavesStateUnchanged ==
    (aggKind = "single" /\ lastOp.op = "update_single" /\ lastOp.outcome # "ok")
        => states = before

\* A hook raised on a state that already held a sample.
C6_Witness ==
    /\ aggKind = "single" /\ lastOp.op = "update_single" /\ lastOp.outcome = "hook_error"
    /\ Len(before["a"].matches) = 1 /\ hookLog # <<>>

\* C7: update_batch with len(preds) # len(refs) fails with a length-mismatch
\* error instead of processing a truncated batch.
C7_MismatchedBatchFails ==
    (lastOp.op = "update_batch" /\ lastOp.mismatch) => lastOp.outcome = "length_mismatch"

C9_DataIdIsCallIndex ==
    \A n \in 1..Len(hookLog) :
        /\ hookLog[n].data_id = hookLog[n].call
        /\ hookLog[n].preds_held = hookLog[n].call
        /\ hookLog[n].refs_held = hookLog[n].call
        /\ hookLog[n].matches_held = hookLog[n].call

\* C9, amended: with hooks, an update_single on a state runs the hooks with
\* data_id = the number of update_single calls on it that completed since
\* construction or the last reset (the number of samples it holds; calls that
\* raised are not counted), before the sample's three scores are appended.
C9_DataIdIsCompletedCalls ==
    \A n \in 1..Len(hookLog) :
        /\ hookLog[n].data_id = hookLog[n].completed
        /\ hookLog[n].preds_held = hookLog[n].completed
        /\ hookLog[n].refs_held = hookLog[n].completed
        /\ hookLog[n].matches_held = hookLog[n].completed

\* Hooks run in the second call on a state, its first having raised.
C9_Witness ==
    /\ lastOp.op = "update_single" /\ lastOp.outcome = "ok"
    /\ \E n \in 1..Len(hookLog) : hookLog[n].call = 1 /\ hookLog[n].data_id = 0

\* ------------------------------------------- hooks over a matching: the claims

\* (match, hook) comes strictly before (match', hook') in emission order.
EarlierCall(a, b) == a.match < b.match \/ (a.match = b.match /\ a.hook < b.hook)

\* The Python index held by a one-component path.
IndexOf(path) == path[1].i

\* Element match a comes strictly before element match b in ascending
\* (pred index, ref index) order.
EarlierPair(a, b) ==
    \/ IndexOf(a.pred_path) < IndexOf(b.pred_path)
    \/ /\ IndexOf(a.pred_path) = IndexOf(b.pred_path)
       /\ IndexOf(a.ref_path) < IndexOf(b.ref_path)

\* C10: a run of hooks over the matching of an ILP-backed metric invokes each
\* hook exactly once for each match whose pred_path its selector selects, in
\* the order the matching emits its matches, and invokes no hook on a match
\* its selector does not select; the matching emits the root match first and
\* then the element matches in ascending (pred index, ref index) order.
C10_HooksFollowEmissionOrder ==
    graphPc = "hooked" =>
        LET matching == graphResult.matching
        IN /\ Len(matching) >= 1
           /\ matching[1].pred_path = RootPath
           /\ matching[1].ref_path = RootPath
           /\ \A k \in 2..Len(matching) :
                 /\ Len(matching[k].pred_path) = 1
                 /\ Len(matching[k].ref_path) = 1
           /\ \A k \in 2..(Len(matching) - 1) : EarlierPair(matching[k], matching[k + 1])
           /\ \A n \in 1..(Len(graphLog) - 1) : EarlierCall(graphLog[n], graphLog[n + 1])
           /\ \A k \in 1..Len(matching) : \A h \in 1..Len(graphHooks) :
                 selects(graphHooks[h].selector, matching[k].pred_path)
                   <=> \E n \in 1..Len(graphLog) :
                          /\ graphLog[n].match = k
                          /\ graphLog[n].hook = h
                          /\ graphLog[n].pred_path = matching[k].pred_path
                          /\ graphLog[n].ref_path = matching[k].ref_path

\* A many-to-many matching of two two-node graphs that pairs every node with
\* every node, run under a root hook, a [0] hook and a field hook: the root
\* hook fires once, the [0] hook twice, the field hook never.
C10_Witness ==
    /\ graphPc = "hooked"
    /\ graphConstraint = MANY_TO_MANY
    /\ Len(graphHooks) = 3
    /\ Len(graphResult.matching) = 5
    /\ IndexOf(graphResult.matching[3].pred_path) = 0
    /\ IndexOf(graphResult.matching[3].ref_path) = 1
    /\ IndexOf(graphResult.matching[4].pred_path) = 1
    /\ IndexOf(graphResult.matching[4].ref_path) = 0
    /\ Len(graphLog) = 3
    /\ graphLog[1].match = 1 /\ graphLog[1].hook = 1
    /\ graphLog[2].match = 2 /\ graphLog[2].hook = 2
    /\ graphLog[3].match = 3 /\ graphLog[3].hook = 2

\* ------------------------------------------------------------ _assignment.py

\* w.T
Transpose(m) == [j \in 1..NCols(m) |-> [i \in 1..NRows(m) |-> m[i][j]]]

\* A minv cell: np.inf, or a finite reduced cost.
Infinite == [inf |-> TRUE, val |-> 0]

Finite(n) == [inf |-> FALSE, val |-> n]

\* cur < minv on one cell.
Below(cur, cell) == cell.inf \/ cur < cell.val

\* The alternating tree at the top of an iteration of "while True": the
\* frontier column j0 (-1 is the dummy root), minv, used, way and the dual
\* potentials.
NewTree(ny, u, v) ==
    [j0 |-> -1,
     minv |-> [j \in 0..(ny - 1) |-> Infinite],
     used |-> [j \in 0..(ny - 1) |-> FALSE],
     way |-> [j \in 0..(ny - 1) |-> -2],
     u |-> u, v |-> v]

\* The first loop of an outer iteration, run to its break: the tree grown
\* from row i until its frontier column j0 is unmatched.
RECURSIVE BuildTree(_, _, _, _)
BuildTree(w, i, pred, t) ==
    LET cols == 0..(NCols(w) - 1)
        i0 == IF t.j0 = -1 THEN i ELSE pred[t.j0]
        cur == [j \in cols |-> (0 - Cell(w, i0, j)) - t.u[i0] - t.v[j]]
        improved == {j \in cols : ~t.used[j] /\ Below(cur[j], t.minv[j])}
        minv1 == [j \in cols |-> IF j \in improved THEN Finite(cur[j]) ELSE t.minv[j]]
        way1 == [j \in cols |-> IF j \in improved THEN t.j0 ELSE t.way[j]]
        open == {j \in cols : ~t.used[j] /\ ~minv1[j].inf}
        j1 == CHOOSE j \in open :
                 \A k \in open : minv1[j].val < minv1[k].val
                                 \/ (minv1[j].val = minv1[k].val /\ j <= k)
        delta == minv1[j1].val
        rows == {pred[j] : j \in {k \in cols : t.used[k] /\ pred[k] # -1}}
        v2 == [j \in cols |-> IF t.used[j] THEN t.v[j] - delta ELSE t.v[j]]
        u2 == [r \in DOMAIN t.u |-> IF r \in rows THEN t.u[r] + delta ELSE t.u[r]]
        u3 == [u2 EXCEPT ![i] = @ + delta]
        minv2 == [j \in cols |-> IF ~t.used[j] /\ ~minv1[j].inf
                                 THEN Finite(minv1[j].val - delta) ELSE minv1[j]]
        next == [j0 |-> j1, minv |-> minv2, used |-> t.used, way |-> way1,
                 u |-> u3, v |-> v2]
    IN IF pred[j1] = -1 THEN next
       ELSE BuildTree(w, i, pred, [next EXCEPT !.used[j1] = TRUE])

\* The second loop: pred rewritten along the alternating path from j0 back
\* to the root.
\* (Augment_LastOnly is the variant that stops after the first rewrite.)
Augment_LastOnly(pred, way, i, j0) ==
    [pred EXCEPT ![j0] = IF way[j0] = -1 THEN i ELSE pred[way[j0]]]

RECURSIVE Augment(_, _, _, _)
Augment(pred, way, i, j0) ==
    LET j_prev == way[j0]
        i_prev == IF j_prev = -1 THEN i ELSE pred[j_prev]
        pred1 == [pred EXCEPT ![j0] = i_prev]
    IN IF j_prev = -1 THEN pred1 ELSE Augment(pred1, way, i, j_prev)

\* (MatchesOf_WorkingOrientation is the variant that leaves the indices of a
\* transposed run as they are in w.)
MatchesOf_WorkingOrientation(cost, transposed, pred, ny) ==
    Concat([c \in 1..ny |->
              IF pred[c - 1] = -1 THEN <<>>
              ELSE IF transposed THEN <<<<pred[c - 1], c - 1, Cell(cost, c - 1, pred[c - 1])>>>>
              ELSE <<Triple(cost, pred[c - 1], c - 1)>>])

\* The matches built from pred in ascending column order of w, in the
\* orientation of the original cost matrix.
MatchesOf(cost, transposed, pred, ny) ==
    Concat([c \in 1..ny |->
              IF pred[c - 1] = -1 THEN <<>>
              ELSE IF transposed THEN <<Triple(cost, c - 1, pred[c - 1])>>
              ELSE <<Triple(cost, pred[c - 1], c - 1)>>])

\* What one yield hands out.
Yielded(matches) ==
    [total |-> SumSeq([k \in 1..Len(matches) |-> matches[k][3]]), matches |-> matches]

\* Cost matrices: every shape up to MaxDim x MaxDim of at most 3 * MaxDim
\* cells, with cells 0..2 (0..1 in matrices of more than nine cells).
CostCells(nx, ny) == IF nx * ny <= 9 THEN 0..2 ELSE 0..1

CostShapes == {sh \in (1..MaxDim) \X (1..MaxDim) : sh[1] * sh[2] <= 3 * MaxDim}

CostMatrices ==
    UNION {[1..sh[1] -> [1..sh[2] -> CostCells(sh[1], sh[2])]] : sh \in CostShapes}

HungIdle ==
    /\ hungCost = <<>>
    /\ hungW = <<>>
    /\ hungTransposed = FALSE
    /\ hungU = <<>>
    /\ hungV = <<>>
    /\ hungPred = <<>>
    /\ hungRow = 0
    /\ hungYields = <<>>
    /\ hungPc = "idle"

\* iterative_max_matching(cost) up to its first "for i in range(nx)".
HungInit ==
    /\ hungCost \in CostMatrices
    /\ hungTransposed = (NRows(hungCost) > NCols(hungCost))
    /\ hungW = IF hungTransposed THEN Transpose(hungCost) ELSE hungCost
    /\ hungU = [r \in 0..(NRows(hungW) - 1) |-> 0]
    /\ hungV = [j \in 0..(NCols(hungW) - 1) |-> 0]
    /\ hungPred = [j \in 0..(NCols(hungW) - 1) |-> -1]
    /\ hungRow = 0
    /\ hungYields = <<>>
    /\ hungPc = "running"

\* next(generator): one iteration of "for i in range(nx)", to its yield.
Hung_next ==
    /\ hungPc = "running"
    /\ hungRow < NRows(hungW)
    /\ LET t == BuildTree(hungW, hungRow, hungPred, NewTree(NCols(hungW), hungU, hungV))
           pred == Augment(hungPred, t.way, hungRow, t.j0)
       IN /\ hungU' = t.u
          /\ hungV' = t.v
          /\ hungPred' = pred
          /\ hungYields' = Append(hungYields,
                Yielded(MatchesOf(hungCost, hungTransposed, pred, NCols(hungW))))
    /\ hungRow' = hungRow + 1
    /\ UNCHANGED <<hungCost, hungW, hungTransposed, hungPc>>
    /\ UNCHANGED exceptHung

\* next(generator) after the last row: the generator returns.
Hung_exhausted ==
    /\ hungPc = "running"
    /\ hungRow = NRows(hungW)
    /\ hungPc' = "exhausted"
    /\ UNCHANGED <<hungCost, hungW, hungTransposed, hungU, hungV, hungPred, hungRow, hungYields>>
    /\ UNCHANGED exceptHung

HungNext ==
    \/ Hung_next
    \/ Hung_exhausted

\* ------------------------------------------ iterative matching: the claims

\* The first k rows of a matrix.
FirstRows(m, k) == [i \in 1..k |-> m[i]]

\* The best total over all ways to give each of rows i.. of m a column of
\* its own outside used, by exhaustive search (m has no more rows than
\* columns).
RECURSIVE BestRowsFrom(_, _, _)
BestRowsFrom(m, i, used) ==
    IF i >= NRows(m) THEN 0
    ELSE LET take == {Cell(m, i, j) + BestRowsFrom(m, i + 1, used \cup {j})
                      : j \in (0..(NCols(m) - 1)) \ used}
         IN CHOOSE b \in take : \A c \in take : c <= b

\* The maximum total over all one-to-one assignments of min(nx, ny)
\* row/column pairs of m.
AssignmentOptimum(m) ==
    BestRowsFrom(IF NRows(m) > NCols(m) THEN Transpose(m) ELSE m, 0, {})

\* C11: for every non-negative cost matrix of any shape, the total of the
\* last element yielded by iterative_max_matching is the maximum total of a
\* one-to-one assignment of min(nx, ny) row/column pairs.
C11_LastTotalIsOptimum ==
    hungPc = "exhausted" =>
        /\ hungYields # <<>>
        /\ hungYields[Len(hungYields)].total = AssignmentOptimum(hungCost)

\* A 3 x 2 matrix whose optimum, 4, leaves out the middle row.
C11_Witness ==
    /\ hungPc = "exhausted"
    /\ hungCost = <<<<2, 0>>, <<1, 1>>, <<1, 2>>>>
    /\ hungYields[Len(hungYields)].total = 4

\* C12: iterative_max_matching yields exactly min(nx, ny) elements, and for
\* every k the k-th yielded total is the maximum one-to-one matching total
\* between the first k rows of the input matrix and all of its columns,
\* whether nx <= ny or nx > ny.
C12_PrefixTotals ==
    /\ hungPc = "exhausted" =>
          Len(hungYields) = Min(NRows(hungCost), NCols(hungCost))
    /\ \A k \in 1..Len(hungYields) :
          hungYields[k].total = AssignmentOptimum(FirstRows(hungCost, k))

\* ------------------------------------------------ graph matching: the claims

\* The (pred index, ref index, score) of every element match of a matching.
EmittedPairs(matching) ==
    {<<IndexOf(matching[k].pred_path), IndexOf(matching[k].ref_path), matching[k].score>>
     : k \in 2..Len(matching)}

\* Pairs p and q agree on reachability: q's node is reachable from p's node
\* in graph x exactly when it is in graph y.
ReachabilityConsistent(p, q) ==
    _reachability_matrix(graphX)[<<p[1], q[1]>>] <=> _reachability_matrix(graphY)[<<p[2], q[2]>>]

C14_PositivePairsReachabilityConsistent ==
    graphPc \in {"computed", "hooked"} =>
        \A p, q \in {e \in EmittedPairs(graphResult.matching) : e[3] > 0} :
            ReachabilityConsistent(p, q)

\* Two positive pairs that disagree on reachability exist and compute has
\* returned: x is the chain 0 -> 1, y has the same labels and no edge.
C14_Witness ==
    /\ graphPc = "computed"
    /\ graphX = [nodes |-> <<1, 2>>, edges |-> {<<0, 1>>}]
    /\ graphY = [nodes |-> <<1, 2>>, edges |-> {}]
    /\ graphInner = DiscreteMetric
    /\ graphConstraint = MANY_TO_MANY
    /\ graphResult.score = 1

\* ---------------------------------- one evaluation of LatentSetMatchingMetric

\* A field value of a record: a Variable (metric.py) or a plain string.
Variable(name) == [isVar |-> TRUE, name |-> name]

Str(name) == [isVar |-> FALSE, name |-> name]

\* The compared records are instances of a dataclass with a string field
\* pred and a field arg of type Union[Variable, str]; fields(cls) in order.
LatentFields == <<"pred", "arg">>

Items ==
    [pred : {Str("p"), Str("q")}, arg : {Variable("X"), Variable("Y"), Str("c")}]

\* DiscreteMetric on a field value.
DiscreteScoreOf(a, b) == IF a = b THEN 1 ELSE 0

\* UnionMetric over Variable (its latent_metric, the constant 1) and str
\* (DiscreteMetric): 0 when the two values are of different types.
UnionMetric(a, b) ==
    IF a.isVar # b.isVar THEN 0
    ELSE IF a.isVar THEN 1
    ELSE DiscreteScoreOf(a, b)

\* ProductMetric over the fields of the dataclass, as derive_metric builds
\* it: the product of the field scores.  It inherits Metric.score_self.
ProductMetric ==
    [kind |-> "product",
     f |-> [p \in Items \X Items |->
              DiscreteScoreOf(p[1].pred, p[2].pred) * UnionMetric(p[1].arg, p[2].arg)]]

\* Inner metrics of the compared records: the derived product metric, and a
\* user function that scores equal records 2 and different records 1.
LatentInnerMetrics ==
    {ProductMetric,
     [kind |-> "fn", f |-> [p \in Items \X Items |-> IF p[1] = p[2] THEN 2 ELSE 1]]}

\* _all_variables of one record: the Variables among vars(obj).values().
ItemVariables(item) ==
    SelectSeq([k \in 1..Len(LatentFields) |-> item[LatentFields[k]]], LAMBDA v : v.isVar)

\* _all_variables of a collection: every occurrence, in iteration order.
_all_variables(xs) == Concat([k \in 1..Len(xs) |-> ItemVariables(xs[k])])

\* {t: i for i, t in enumerate(vars)}[t]: the last position of t.
VarToId(vs, t) ==
    (CHOOSE i \in 1..Len(vs) : vs[i] = t /\ \A k \in (i + 1)..Len(vs) : vs[k] # t) - 1

\* VariableMatchingConstraintBuilder.build: one-to-one rows on the variable
\* block, none when either side has no variable.
VariableMatchingConstraintBuilder(n_x, n_y, n_x_vars, n_y_vars) ==
    IF n_x_vars = 0 \/ n_y_vars = 0 THEN <<>>
    ELSE LET m == _get_one_to_one_constraint_matrix(n_x_vars, n_y_vars)
         IN [r \in 1..Len(m) |-> ConstraintRow({n_x * n_y + c : c \in m[r]}, {}, 1)]

\* The rows of one record pair (i, j): one per field that holds a Variable
\* on both sides, t[i, j] - s[id(a.fld), id(b.fld)] <= 0.
LatentRowsOfPair(x, y, i, j) ==
    LET n_x == Len(x)
        n_y == Len(y)
        x_vars == _all_variables(x)
        y_vars == _all_variables(y)
    IN Concat([k \in 1..Len(LatentFields) |->
          LET a_fld == x[i + 1][LatentFields[k]]
              b_fld == y[j + 1][LatentFields[k]]
          IN IF a_fld.isVar /\ b_fld.isVar
             THEN <<ConstraintRow({index_pair(n_y, i, j)},
                                  {index_var_pair(n_x, n_y, Len(y_vars),
                                                  VarToId(x_vars, a_fld), VarToId(y_vars, b_fld))},
                                  0)>>
             ELSE <<>>])

\* LatentVariableConstraintBuilder.build: the rows of every record pair
\* whose gram cell is positive, i outermost.
LatentVariableConstraintBuilder(x, y, gram) ==
    Concat([i \in 1..Len(x) |->
       Concat([j \in 1..Len(y) |->
          IF Cell(gram, i - 1, j - 1) > 0 THEN LatentRowsOfPair(x, y, i - 1, j - 1) ELSE <<>>])])

\* LatentSetMatchingMetric.compute: the (score, matching) results it may
\* return.
LatentCompute(inner, constraint, x, y) ==
    IF Len(x) = 0 /\ Len(y) = 0 THEN {BothEmptyResult}
    ELSE IF Len(x) = 0 \/ Len(y) = 0 THEN {OneEmptyResult}
    ELSE LET n_x == Len(x)
             n_y == Len(y)
             n_x_vars == Len(_all_variables(x))
             n_y_vars == Len(_all_variables(y))
             gram == gram_matrix(inner, x, y)
             rows == MatchingConstraintBuilder(n_x, n_y, constraint)
                       \o VariableMatchingConstraintBuilder(n_x, n_y, n_x_vars, n_y_vars)
                       \o LatentVariableConstraintBuilder(x, y, gram)
         IN {[score |-> r.total, matching |-> _matching_from_triples(r.total, r.matching)]
             : r \in ILPMatchingProblem_solve(n_x, n_y, n_x_vars, n_y_vars, gram, rows)}

\* LatentSetMatchingMetric.score_self: that of the set matching metric over
\* the same inner metric and constraint.
LatentScoreSelf(inner, constraint, x) == SetScoreSelf(inner, constraint, x)

LatIdle ==
    /\ latX = <<>> /\ latY = <<>>
    /\ latConstraint = ONE_TO_ONE /\ latInner = DiscreteMetric
    /\ latPc = "idle" /\ latResult = NoResult /\ latSelf = 0

LatInit ==
    /\ latX \in Seqs(Items, MaxLen)
    /\ latY \in Seqs(Items, MaxLen)
    /\ latConstraint \in MatchingConstraint
    /\ latInner \in LatentInnerMetrics
    /\ latPc = "start"
    /\ latResult = NoResult
    /\ latSelf = 0

\* metric.compute(latX, latY)
Latent_compute ==
    /\ latPc = "start"
    /\ latResult' \in LatentCompute(latInner, latConstraint, latX, latY)
    /\ latPc' = "computed"
    /\ UNCHANGED <<latX, latY, latConstraint, latInner, latSelf>>
    /\ UNCHANGED exceptLat

\* metric.score_self(latX)
Latent_score_self ==
    /\ latPc = "computed"
    /\ latSelf' = LatentScoreSelf(latInner, latConstraint, latX)
    /\ latPc' = "done"
    /\ UNCHANGED <<latX, latY, latConstraint, latInner, latResult>>
    /\ UNCHANGED exceptLat

LatNext == Latent_compute \/ Latent_score_self

\* ----------------------------------------------- latent matching: the claims

\* The variable pairs induced by a matching: for each element match (a, b)
\* and each field holding a Variable on both sides, (a.field, b.field).
\* With positive set, only the element matches of positive score count.
InducedVariablePairs(x, y, matching, positive) ==
    UNION {{<<x[e[1] + 1][LatentFields[k]], y[e[2] + 1][LatentFields[k]]>>
            : k \in {n \in 1..Len(LatentFields) :
                       /\ x[e[1] + 1][LatentFields[n]].isVar
                       /\ y[e[2] + 1][LatentFields[n]].isVar}}
           : e \in {d \in EmittedPairs(matching) : positive => d[3] > 0}}

\* A set of pairs is a one-to-one partial correspondence.
OneToOnePairs(S) == \A p, q \in S : (p[1] = q[1]) <=> (p[2] = q[2])

C13_PositiveInducedVariablesOneToOne ==
    latPc \in {"computed", "done"} =>
        OneToOnePairs(InducedVariablePairs(latX, latY, latResult.matching, TRUE))

\* ----------------------------------------------------------- normalizers.py

\* A score handed to a normalizer: its value, and whether it is a numpy
\* scalar (division by a zero numpy scalar, or of one by zero, yields nan or
\* inf; division of Python floats by zero raises ZeroDivisionError).
Float(v) == [val |-> v, np |-> FALSE]

NumpyFloat(v) == [val |-> v, np |-> TRUE]

\* What a normalizer returns: the fraction num / den (den # 0), nan, inf, or
\* the exception it raised.
Value(num, den) == [kind |-> "value", num |-> num, den |-> den]

Failed(kind) == [kind |-> kind, num |-> 0, den |-> 0]

\* a / b on floats.
TrueDiv(a, b) ==
    IF b.val # 0 THEN Value(a.val, b.val)
    ELSE IF a.np \/ b.np THEN (IF a.val = 0 THEN Failed("nan") ELSE Failed("inf"))
    ELSE Failed("ZeroDivisionError")

Jaccard == [name |-> "jaccard", beta |-> 0]

Precision == [name |-> "precision", beta |-> 0]

Recall == [name |-> "recall", beta |-> 0]

\* FScore(beta): named f1 when beta is 1, f<beta> otherwise.
FScore(beta) == [name |-> IF beta = 1 THEN "f1" ELSE "f" \o ToString(beta), beta |-> beta]

\* Normalizer.normalize of the four scalar normalizers.
normalize(n, score_xy, score_xx, score_yy) ==
    CASE n = Jaccard ->
           TrueDiv(score_xy, [val |-> score_xx.val + score_yy.val - score_xy.val,
                              np |-> score_xx.np \/ score_yy.np \/ score_xy.np])
      [] n = Precision -> TrueDiv(score_xy, score_xx)
      [] n = Recall -> TrueDiv(score_xy, score_yy)
      [] OTHER ->
           IF score_xy.val > 0
           THEN TrueDiv([val |-> (1 + n.beta * n.beta) * score_xy.val, np |-> score_xy.np],
                        [val |-> n.beta * n.beta * score_yy.val + score_xx.val,
                         np |-> score_yy.np \/ score_xx.np])
           ELSE Value(0, 1)

\* The scalar normalizers a NormalizedMetric is built with.
Normalizers == {Jaccard, Precision, Recall, FScore(1), FScore(2)}

\* Whether SetMatchingMetric.compute returns its score as a numpy scalar:
\* only the ONE_TO_ONE branch of AssignmentProblem.solve omits .item().
SetComputeIsNumpy(inner, constraint, x, y) ==
    /\ Len(x) > 0 /\ Len(y) > 0
    /\ constraint = ONE_TO_ONE
    /\ inner.kind # "discrete"

\* Whether SetMatchingMetric.score_self returns a numpy scalar: only the
\* MANY_TO_MANY branch, gram_matrix(x, x).sum().
SetScoreSelfIsNumpy(constraint, x) == Len(x) > 0 /\ constraint = MANY_TO_MANY

\* The matching of a normalized metric: the inner matches, the root match
\* carrying the normalized score.
NormalizedMatching(inner_matching, normalized_score) ==
    [k \in 1..Len(inner_matching) |->
        IF is_root(inner_matching[k].pred_path) /\ is_root(inner_matching[k].ref_path)
        THEN Match(RootPath, RootPath, normalized_score)
        ELSE inner_matching[k]]

\* NormalizedParametrizedMetric.compute over a set matching metric: the
\* (score, matching) results it may return; a normalizer that raises leaves
\* no matching.
NormalizedCompute(n, inner, constraint, x, y) ==
    LET sxx == [val |-> SetScoreSelf(inner, constraint, x), np |-> SetScoreSelfIsNumpy(constraint, x)]
        syy == [val |-> SetScoreSelf(inner, constraint, y), np |-> SetScoreSelfIsNumpy(constraint, y)]
    IN {LET sxy == [val |-> r.score, np |-> SetComputeIsNumpy(inner, constraint, x, y)]
            normalized_score == normalize(n, sxy, sxx, syy)
        IN [score |-> normalized_score,
            matching |-> IF normalized_score.kind = "ZeroDivisionError" THEN <<>>
                         ELSE NormalizedMatching(r.matching, normalized_score)]
        : r \in SetCompute(inner, constraint, x, y)}

\* NormalizedMetric.score_self: the constant 1.0.
NormalizedScoreSelf(x) == Value(1, 1)

\* ------------------------------------------ one evaluation of NormalizedMetric

\* Element metrics of the normalized metrics: DiscreteMetric, and the user
\* functions that are symmetric in their arguments.
SymmetricInnerMetrics ==
    {DiscreteMetric} \cup
    {MetricFromFunction(f) : f \in {g \in [Vals \X Vals -> FnScores] :
                                       \A a, b \in Vals : g[<<a, b>>] = g[<<b, a>>]}}

NoNormResult == [score |-> Value(0, 1), matching |-> <<>>]

NormIdle ==
    /\ normX = <<>> /\ normY = <<>>
    /\ normConstraint = ONE_TO_ONE /\ normInner = DiscreteMetric
    /\ normalizer = Precision
    /\ normPc = "idle" /\ normResult = NoNormResult /\ normSelf = Value(0, 1)

NormInit ==
    /\ normX \in Seqs(Vals, MaxLen)
    /\ normY \in Seqs(Vals, MaxLen)
    /\ normConstraint \in MatchingConstraint
    /\ normInner \in SymmetricInnerMetrics
    /\ normalizer \in Normalizers
    /\ normPc = "start"
    /\ normResult = NoNormResult
    /\ normSelf = Value(0, 1)

\* metric.compute(normX, normY)
Norm_compute ==
    /\ normPc = "start"
    /\ normResult' \in NormalizedCompute(normalizer, normInner, normConstraint, normX, normY)
    /\ normPc' = "computed"
    /\ UNCHANGED <<normX, normY, normConstraint, normInner, normalizer, normSelf>>
    /\ UNCHANGED exceptNorm

\* metric.score_self(normX)
Norm_score_self ==
    /\ normPc = "computed"
    /\ normSelf' = NormalizedScoreSelf(normX)
    /\ normPc' = "done"
    /\ UNCHANGED <<normX, normY, normConstraint, normInner, normalizer, normResult>>
    /\ UNCHANGED exceptNorm

NormNext == Norm_compute \/ Norm_score_self

\* -------------------------------------------- normalized metrics: the claims

\* A normalizer's result is the number 1.
IsOne(o) == o.kind = "value" /\ o.num = o.den

\* C15: for a NormalizedMetric with normalizer precision, recall, f_beta or
\* jaccard over any inner metric, score_self(x) is 1 and equals
\* compute(x, x)[0], for every x whatever the inner self-score of x is.
C15_NormalizedSelfScoreIsComputeSelf ==
    (normPc = "done" /\ normX = normY) =>
        /\ IsOne(normSelf)
        /\ IsOne(normResult.score)

\* The first half alone: score_self(x) is 1.
C15_NormalizedSelfScoreIsOne ==
    normPc = "done" => IsOne(normSelf)

\* ------------------------------------------------- SequenceMatchingMetric

\* The outcome of a call: the float it returned, or the exception it raised.
Returned(v) == [kind |-> "value", val |-> v]

Raised(exc) == [kind |-> exc, val |-> 0]

\* f[i, j] of the alignment table for i, j >= 1, from f[i-1, j-1], f[i-1, j],
\* f[i, j-1] and the gram cell m[i-1, j-1].
SeqCell(constraint, diag, up, left, cell) ==
    LET base == Max(diag + cell, Max(up, left))
    IN CASE constraint = ONE_TO_MANY -> Max(base, left + cell)
         [] constraint = MANY_TO_ONE -> Max(base, up + cell)
         [] constraint = MANY_TO_MANY -> Max(base, Max(left + cell, up + cell))
         [] OTHER -> base

\* Row i >= 1 of the table, filled from j = 0 upward: prev is row i - 1 and
\* acc the cells of row i filled so far (f[i, j] is acc[j + 1]).
RECURSIVE SeqRow(_, _, _, _, _)
SeqRow(m, constraint, prev, i, acc) ==
    LET j == Len(acc)
    IN IF j = Len(prev) THEN acc
       ELSE IF j = 0 THEN SeqRow(m, constraint, prev, i, <<0>>)
       ELSE SeqRow(m, constraint, prev, i,
                   Append(acc, SeqCell(constraint, prev[j], prev[j + 1], acc[j],
                                       Cell(m, i - 1, j - 1))))

\* The last row of the table after rows 1..n_x, starting from row 0.
RECURSIVE SeqTable(_, _, _, _)
SeqTable(m, constraint, prev, i) ==
    IF i > NRows(m) THEN prev
    ELSE SeqTable(m, constraint, SeqRow(m, constraint, prev, i, <<>>), i + 1)

\* SequenceMatchingMetric.compute(x, y)[0].  The gram matrix of an empty x
\* is the one-dimensional np.array([]), whose shape has no second entry:
\* m.shape[1] raises IndexError.
SeqScore(inner, constraint, x, y) ==
    IF Len(x) = 0 THEN Raised("IndexError")
    ELSE LET m == gram_matrix(inner, x, y)
             last == SeqTable(m, constraint, [j \in 1..(Len(y) + 1) |-> 0], 1)
         IN Returned(last[Len(y) + 1])

\* SequenceMatchingMetric.score_self.
SeqScoreSelf(inner, constraint, x) ==
    IF constraint = ONE_TO_ONE
    THEN Returned(SumSeq([k \in 1..Len(x) |-> InnerScoreSelf(inner, x[k])]))
    ELSE SeqScore(inner, constraint, x, x)

\* --------------------------------- one comparison in both directions

\* Metric.score of the compared metric.
MetricScore(kind, inner, constraint, x, y) ==
    IF kind = "set" THEN Returned(SetScore(inner, constraint, x, y))
    ELSE SeqScore(inner, constraint, x, y)

SymIdle ==
    /\ symKind = "set"
    /\ symX = <<>> /\ symY = <<>>
    /\ symInner = DiscreteMetric
    /\ symConstraint = ONE_TO_ONE /\ symBackConstraint = ONE_TO_ONE
    /\ symPc = "idle" /\ symForward = Returned(0) /\ symBackward = Returned(0)

SymInit ==
    /\ symKind \in {"set", "sequence"}
    /\ symX \in Seqs(Vals, MaxLen)
    /\ symY \in Seqs(Vals, MaxLen)
    /\ symInner \in SymmetricInnerMetrics
    /\ symConstraint \in MatchingConstraint
    /\ symBackConstraint = ONE_TO_ONE
    /\ symPc = "start"
    /\ symForward = Returned(0)
    /\ symBackward = Returned(0)

\* metric.score(symX, symY)
Sym_score ==
    /\ symPc = "start"
    /\ symForward' = MetricScore(symKind, symInner, symConstraint, symX, symY)
    /\ symPc' = "forward"
    /\ UNCHANGED <<symKind, symX, symY, symInner, symConstraint, symBackConstraint, symBackward>>
    /\ UNCHANGED exceptSym

\* other.score(symY, symX), other being the same kind of metric over the same
\* element metric under a constraint of the caller's choice.
Sym_score_swapped ==
    /\ symPc = "forward"
    /\ \E c \in MatchingConstraint :
          /\ symBackConstraint' = c
          /\ symBackward' = MetricScore(symKind, symInner, c, symY, symX)
    /\ symPc' = "done"
    /\ UNCHANGED <<symKind, symX, symY, symInner, symConstraint, symForward>>
    /\ UNCHANGED exceptSym

SymNext == Sym_score \/ Sym_score_swapped

\* --------------------------------------------------- symmetry: the claims

\* The constraint pairs the claim relates: 1:1 with 1:1, *:* with *:*, and
\* 1:* with *:1.
MirroredConstraints(c, d) ==
    \/ c = ONE_TO_ONE /\ d = ONE_TO_ONE
    \/ c = MANY_TO_MANY /\ d = MANY_TO_MANY
    \/ c = ONE_TO_MANY /\ d = MANY_TO_ONE

\* C16: for a symmetric inner metric and any collections x, y,
\* SetMatchingMetric and SequenceMatchingMetric satisfy
\* score(x, y) == score(y, x) under 1:1 and under *:*, and the 1:* score of
\* (x, y) equals the *:1 score of (y, x).
C16_ScoreIsMirrored ==
    (symPc = "done" /\ MirroredConstraints(symConstraint, symBackConstraint)) =>
        symBackward = symForward

\* The same wherever both calls return: no call is made on an empty first
\* sequence.
C16_ScoreIsMirroredWhereDefined ==
    (/\ symPc = "done"
     /\ MirroredConstraints(symConstraint, symBackConstraint)
     /\ symForward.kind = "value"
     /\ symBackward.kind = "value") =>
        symBackward = symForward

\* --------------------------------------------- bounds on scores: the claims

\* No pair of elements scores above the self-score of its first element.
BoundedByFirst(inner) ==
    \A a, b \in Vals : InnerScore(inner, a, b) <= InnerScoreSelf(inner, a)

\* No pair of elements scores above the self-score of its second element.
BoundedBySecond(inner) ==
    \A a, b \in Vals : InnerScore(inner, a, b) <= InnerScoreSelf(inner, b)

\* C17 as stated: for every x and y, score(x, y) >= 0, and when the outer
\* collection constraint is 1:* the set-matching score satisfies
\* score(x, y) <= score_self(x).
C17_ScoreBoundedBySelfOfX ==
    setPc = "done" =>
        /\ result.score >= 0
        /\ setConstraint = ONE_TO_MANY => result.score <= selfScore

\* C17: for every x and y, score(x, y) >= 0; under 1:* the set-matching
\* score satisfies score(x, y) <= score_self(y) when no element pair scores
\* above the self-score of its y element, and under *:1 it satisfies
\* score(x, y) <= score_self(x) when no element pair scores above the
\* self-score of its x element.
C17_ScoreBoundedBySelfOfManySide ==
    setPc = "done" =>
        /\ result.score >= 0
        /\ (setConstraint = ONE_TO_MANY /\ BoundedBySecond(setInner)) =>
               result.score <= SetScoreSelf(setInner, setConstraint, setY)
        /\ (setConstraint = MANY_TO_ONE /\ BoundedByFirst(setInner)) =>
               result.score <= selfScore

\* Under 1:* with DiscreteMetric, x = [1] against y = [1, 1] scores 2: above
\* score_self(x) = 1 and equal to score_self(y) = 2.
C17_Witness ==
    /\ setPc = "done"
    /\ setConstraint = ONE_TO_MANY
    /\ setInner = DiscreteMetric
    /\ setX = <<1>>
    /\ setY = <<1, 1>>
    /\ result.score = 2
    /\ selfScore = 1
    /\ SetScoreSelf(setInner, setConstraint, setY) = 2

\* ------------------------------------------------------------- reduction.py

\* A Python dict: its items in insertion order, as [key, value] records.
EmptyDict == <<>>

DictKeys(d) == {d[i].key : i \in 1..Len(d)}

DictGet(d, k) == d[CHOOSE i \in 1..Len(d) : d[i].key = k].value

\* d[k] = v: an existing key keeps its position and takes the new value, a
\* new key goes last.
\* (DictSet_KeepFirst is the variant that leaves an existing key alone.)
DictSet_KeepFirst(d, k, v) ==
    IF k \in DictKeys(d) THEN d ELSE Append(d, [key |-> k, value |-> v])

DictSet(d, k, v) ==
    IF k \in DictKeys(d)
    THEN [i \in 1..Len(d) |-> IF d[i].key = k THEN [key |-> k, value |-> v] ELSE d[i]]
    ELSE Append(d, [key |-> k, value |-> v])

\* d.update(e), and a dict comprehension over the items e.
RECURSIVE DictUpdate(_, _)
DictUpdate(d, e) ==
    IF e = <<>> THEN d ELSE DictUpdate(DictSet(d, e[1].key, e[1].value), Tail(e))

\* What compute returns: the dict, or nothing when it raised.
Metrics(d) == [raised |-> FALSE, metrics |-> d]

ComputeRaised == [raised |-> TRUE, metrics |-> EmptyDict]

\* None in a collection of normalizers: the entry the string "none" gives.
None == [name |-> "none", beta |-> 0]

\* a + b and a / n on the floats a normalizer returns.
Plus(a, b) == Value(a.num * b.den + b.num * a.den, a.den * b.den)

Over(a, n) == Value(a.num, a.den * n)

RECURSIVE Sum(_)
Sum(vs) == IF vs = <<>> THEN Value(0, 1) ELSE Plus(vs[1], Sum(Tail(vs)))

\* _compute_normalized_metrics on Python floats: one entry per normalizer
\* that is not None, under its name, then sxy under "" when None is among
\* them; a normalizer that divides by zero raises.
_compute_normalized_metrics(normalizers, sxy, sxx, syy) ==
    LET given == SelectSeq(normalizers, LAMBDA n : n # None)
        values == [i \in 1..Len(given) |-> normalize(given[i], Float(sxy), Float(sxx), Float(syy))]
        named == DictUpdate(EmptyDict, [i \in 1..Len(given) |-> [key |-> given[i].name, value |-> values[i]]])
    IN IF \E i \in 1..Len(values) : values[i].kind # "value" THEN ComputeRaised
       ELSE IF \E i \in 1..Len(normalizers) : normalizers[i] = None
       THEN Metrics(DictSet(named, "", Value(sxy, 1)))
       ELSE Metrics(named)

\* MacroAverage.__init__: the names of the normalizers given, then "" when
\* None is among them.
normalizer_names(normalizers) ==
    LET given == SelectSeq(normalizers, LAMBDA n : n # None)
    IN [i \in 1..Len(given) |-> given[i].name]
         \o (IF \E i \in 1..Len(normalizers) : normalizers[i] = None THEN <<"">> ELSE <<>>)

\* MacroAverage.compute: per name, the sum of the per-sample values over
\* n = len(state); sum(...) / 0 raises.
\* (MacroAverage_compute_OverTotals is the variant that normalizes the
\* totals.)
MacroAverage_compute_OverTotals(normalizers, state) ==
    _compute_normalized_metrics(normalizers, SumSeq(state.matches), SumSeq(state.preds),
                                SumSeq(state.refs))

MacroAverage_compute(normalizers, state) ==
    LET n == Len(state.matches)
        names == normalizer_names(normalizers)
        metrics_per_sample ==
            [k \in 1..n |-> _compute_normalized_metrics(normalizers, state.matches[k],
                                                        state.preds[k], state.refs[k])]
    IN IF \E k \in 1..n : metrics_per_sample[k].raised THEN ComputeRaised
       ELSE IF n = 0 /\ names # <<>> THEN ComputeRaised
       ELSE Metrics(DictUpdate(EmptyDict,
               [i \in 1..Len(names) |->
                   [key |-> names[i],
                    value |-> Over(Sum([k \in 1..n |->
                                 DictGet(metrics_per_sample[k].metrics, names[i])]), n)]]))

\* MicroAverage.compute: the normalizers applied to the three totals.
MicroAverage_compute(normalizers, state) ==
    _compute_normalized_metrics(normalizers, SumSeq(state.matches), SumSeq(state.preds),
                                SumSeq(state.refs))

\* f"{prefix}-{name}" if name != "" else prefix
JoinKey(prefix, name) == IF name # "" THEN prefix \o "-" \o name ELSE prefix

\* The items of a sub-dictionary under a prefix.
Prefixed(prefix, d) ==
    [i \in 1..Len(d) |-> [key |-> JoinKey(prefix, d[i].key), value |-> d[i].value]]

\* An extra closure given to with_extra: "count" returns the number of
\* entries it was handed under the key n, "zero" returns every key it was
\* handed with the value 0.
ApplyExtra(extra, d) ==
    IF extra = "count" THEN <<[key |-> "n", value |-> Value(Len(d), 1)]>>
    ELSE [i \in 1..Len(d) |-> [key |-> d[i].key, value |-> Value(0, 1)]]

\* A reduction: MacroAverage or MicroAverage over normalizers,
\* MultipleReductions over named reductions in dictionary order, or
\* ReductionWithExtra over one reduction and a closure.
MacroAverage(normalizers) ==
    [kind |-> "macro", normalizers |-> normalizers, members |-> <<>>, extra |-> ""]

MicroAverage(normalizers) ==
    [kind |-> "micro", normalizers |-> normalizers, members |-> <<>>, extra |-> ""]

MultipleReductions(reductions) ==
    [kind |-> "multiple", normalizers |-> <<>>, members |-> reductions, extra |-> ""]

ReductionWithExtra(original, extra) ==
    [kind |-> "extra", normalizers |-> <<>>,
     members |-> <<[name |-> "", sub |-> original]>>, extra |-> extra]

\* Reduction.compute(state).
RECURSIVE Reduction_compute(_, _)
RECURSIVE MultipleReductions_compute(_, _, _)
MultipleReductions_compute(members, state, acc) ==
    IF members = <<>> THEN Metrics(acc)
    ELSE LET sub == Reduction_compute(members[1].sub, state)
         IN IF sub.raised THEN ComputeRaised
            ELSE MultipleReductions_compute(Tail(members), state,
                     DictUpdate(acc, Prefixed(members[1].name, sub.metrics)))

Reduction_compute(reduction, state) ==
    CASE reduction.kind = "macro" -> MacroAverage_compute(reduction.normalizers, state)
      [] reduction.kind = "micro" -> MicroAverage_compute(reduction.normalizers, state)
      [] reduction.kind = "multiple" ->
           MultipleReductions_compute(reduction.members, state, EmptyDict)
      [] OTHER ->
           LET reduced == Reduction_compute(reduction.members[1].sub, state)
           IN IF reduced.raised THEN ComputeRaised
              ELSE Metrics(DictUpdate(reduced.metrics, ApplyExtra(reduction.extra, reduced.metrics)))

\* --------------------------------------- metric_suite.py: Aggregator.compute

\* An aggregator: a MetricFamilyAggregator with its reduction and its
\* SingleMetricState, a MultipleMetricFamiliesAggregator over named
\* aggregators in dictionary order, or a WithExtraAggregator over one
\* aggregator and a closure.
MetricFamilyAggregator(reduction, state) ==
    [kind |-> "family", reduction |-> reduction, state |-> state, members |-> <<>>, extra |-> ""]

MultipleMetricFamiliesAggregator(aggs) ==
    [kind |-> "families", reduction |-> MicroAverage(<<>>), state |-> EmptyState,
     members |-> aggs, extra |-> ""]

WithExtraAggregator(agg, extra) ==
    [kind |-> "extra", reduction |-> MicroAverage(<<>>), state |-> EmptyState,
     members |-> <<[name |-> "", sub |-> agg]>>, extra |-> extra]

\* Aggregator.compute.
RECURSIVE Aggregator_compute(_)
RECURSIVE MultipleMetricFamiliesAggregator_compute(_, _)
MultipleMetricFamiliesAggregator_compute(members, acc) ==
    IF members = <<>> THEN Metrics(acc)
    ELSE LET sub == Aggregator_compute(members[1].sub)
         IN IF sub.raised THEN ComputeRaised
            ELSE MultipleMetricFamiliesAggregator_compute(Tail(members),
                     DictUpdate(acc, Prefixed(members[1].name, sub.metrics)))

Aggregator_compute(agg) ==
    CASE agg.kind = "family" -> Reduction_compute(agg.reduction, agg.state)
      [] agg.kind = "families" -> MultipleMetricFamiliesAggregator_compute(agg.members, EmptyDict)
      [] OTHER ->
           LET joined == Aggregator_compute(agg.members[1].sub)
           IN IF joined.raised THEN ComputeRaised
              ELSE Metrics(DictUpdate(joined.metrics, ApplyExtra(agg.extra, joined.metrics)))

\* Aggregator.update_single, every family being built over the same metric:
\* the three scores of the sample are appended to every family's state.
RECURSIVE Aggregator_update_single(_, _, _, _)
Aggregator_update_single(agg, sxx, syy, sxy) ==
    IF agg.kind = "family" THEN [agg EXCEPT !.state = AppendScores(@, sxx, syy, sxy)]
    ELSE [agg EXCEPT !.members =
            [i \in 1..Len(@) |->
                [name |-> @[i].name, sub |-> Aggregator_update_single(@[i].sub, sxx, syy, sxy)]]]

\* Aggregator.reset: every family's state is emptied.
RECURSIVE Aggregator_reset(_)
Aggregator_reset(agg) ==
    IF agg.kind = "family" THEN [agg EXCEPT !.state = EmptyState]
    ELSE [agg EXCEPT !.members =
            [i \in 1..Len(@) |-> [name |-> @[i].name, sub |-> Aggregator_reset(@[i].sub)]]]

\* len(agg.state): that of the first family.
RECURSIVE Aggregator_len(_)
Aggregator_len(agg) ==
    IF agg.kind = "family" THEN Len(agg.state.matches) ELSE Aggregator_len(agg.members[1].sub)

\* The suites whose aggregators are exercised.
TwoFamilies ==
    MultipleMetricFamiliesAggregator(
        <<[name |-> "a", sub |-> MetricFamilyAggregator(MicroAverage(<<Precision, None>>), EmptyState)],
          [name |-> "b", sub |-> MetricFamilyAggregator(MacroAverage(<<Precision>>), EmptyState)]>>)

NewAggregators ==
    {MetricFamilyAggregator(MicroAverage(<<Precision, Recall, FScore(1)>>), EmptyState),
     MetricFamilyAggregator(MacroAverage(<<Precision, Recall, FScore(1)>>), EmptyState),
     MetricFamilyAggregator(MicroAverage(<<Jaccard, None>>), EmptyState),
     MetricFamilyAggregator(MacroAverage(<<FScore(2), None>>), EmptyState),
     MetricFamilyAggregator(
         MultipleReductions(<<[name |-> "macro", sub |-> MacroAverage(<<FScore(1)>>)],
                              [name |-> "micro", sub |-> MicroAverage(<<FScore(1), None>>)]>>),
         EmptyState),
     MetricFamilyAggregator(ReductionWithExtra(MicroAverage(<<Precision>>), "count"), EmptyState),
     TwoFamilies,
     WithExtraAggregator(TwoFamilies, "zero"),
     WithExtraAggregator(TwoFamilies, "count"),
     MultipleMetricFamiliesAggregator(
         <<[name |-> "x", sub |-> WithExtraAggregator(TwoFamilies, "count")],
           [name |-> "y", sub |-> MetricFamilyAggregator(MicroAverage(<<None>>), EmptyState)]>>),
     MultipleMetricFamiliesAggregator(
         <<[name |-> "a", sub |-> MetricFamilyAggregator(
               MultipleReductions(<<[name |-> "b", sub |-> MicroAverage(<<None>>)]>>), EmptyState)],
           [name |-> "a-b", sub |-> MetricFamilyAggregator(MacroAverage(<<None>>), EmptyState)]>>)}

NoOutput == Metrics(EmptyDict)

SuiteIdle ==
    /\ suiteAgg = MetricFamilyAggregator(MicroAverage(<<>>), EmptyState)
    /\ suitePc = "idle"
    /\ suiteOut = NoOutput

\* suite.new()
SuiteInit ==
    /\ suiteAgg \in NewAggregators
    /\ suitePc = "ready"
    /\ suiteOut = NoOutput

\* agg.update_single(pred, ref)
Suite_update_single ==
    /\ suitePc \in {"ready", "computed", "reset"}
    /\ Aggregator_len(suiteAgg) < MaxCalls
    /\ \E sxx \in FnScores, syy \in FnScores, sxy \in FnScores :
          suiteAgg' = Aggregator_update_single(suiteAgg, sxx, syy, sxy)
    /\ suitePc' = "ready"
    /\ suiteOut' = NoOutput
    /\ UNCHANGED exceptSuite

\* agg.compute()
Suite_compute ==
    /\ suitePc \in {"ready", "reset"}
    /\ suiteOut' = Aggregator_compute(suiteAgg)
    /\ suitePc' = "computed"
    /\ UNCHANGED suiteAgg
    /\ UNCHANGED exceptSuite

\* agg.reset()
Suite_reset ==
    /\ suitePc = "computed"
    /\ Aggregator_len(suiteAgg) > 0
    /\ suiteAgg' = Aggregator_reset(suiteAgg)
    /\ suitePc' = "reset"
    /\ suiteOut' = NoOutput
    /\ UNCHANGED exceptSuite

SuiteNext ==
    \/ Suite_update_single
    \/ Suite_compute
    \/ Suite_reset

\* ------------------------------------------------------ reductions: the claims

\* Two fractions denote the same number.
SameNumber(a, b) ==
    /\ a.kind = "value"
    /\ b.kind = "value"
    /\ a.num * b.den = b.num * a.den

\* The key of a normalizer in the dictionary, and the normalizer applied to
\* one triple; None is the un-normalized sxy under the empty key.
KeyOf(n) == IF n = None THEN "" ELSE n.name

Applied(n, sxy, sxx, syy) ==
    IF n = None THEN Value(sxy, 1) ELSE normalize(n, Float(sxy), Float(sxx), Float(syy))

\* The number a reduction owes for one normalizer: micro, the normalizer on
\* the three totals; macro, the per-sample values summed and divided by n.
Owed(reduction, state, n) ==
    IF reduction.kind = "micro"
    THEN Applied(n, SumSeq(state.matches), SumSeq(state.preds), SumSeq(state.refs))
    ELSE LET per == [k \in 1..Len(state.matches) |->
                        Applied(n, state.matches[k], state.preds[k], state.refs[k])]
         IN IF \E k \in 1..Len(per) : per[k].kind # "value" THEN Failed("ZeroDivisionError")
            ELSE Over(Sum(per), Len(state.matches))

\* C18: for a state of n >= 1 samples, MicroAverage.compute holds, under
\* each normalizer's key, that normalizer applied once to the totals of
\* matches, preds and refs, and MacroAverage.compute holds the sum over the
\* samples of the normalizer applied to the sample's triple, divided by
\* n = len(state); "none" gives the un-normalized sxy under the empty key,
\* and compute raises exactly when one of these divisions does.
C18_MicroAndMacroAverages ==
    (/\ suitePc = "computed"
     /\ suiteAgg.kind = "family"
     /\ suiteAgg.reduction.kind \in {"micro", "macro"}
     /\ Len(suiteAgg.state.matches) >= 1)
    => LET reduction == suiteAgg.reduction
           given == {reduction.normalizers[i] : i \in 1..Len(reduction.normalizers)}
       IN IF \E n \in given : Owed(reduction, suiteAgg.state, n).kind # "value"
          THEN suiteOut.raised
          ELSE /\ ~suiteOut.raised
               /\ DictKeys(suiteOut.metrics) = {KeyOf(n) : n \in given}
               /\ \A n \in given :
                     SameNumber(DictGet(suiteOut.metrics, KeyOf(n)),
                                Owed(reduction, suiteAgg.state, n))

\* A macro average over two samples whose mean differs from what the totals
\* give, with the empty key present.
C18_Witness ==
    /\ suitePc = "computed"
    /\ suiteAgg.kind = "family"
    /\ suiteAgg.reduction.kind = "macro"
    /\ Len(suiteAgg.state.matches) = 2
    /\ ~suiteOut.raised
    /\ DictKeys(suiteOut.metrics) = {"f2", ""}
    /\ ~SameNumber(DictGet(suiteOut.metrics, "f2"),
                   Applied(FScore(2), SumSeq(suiteAgg.state.matches),
                           SumSeq(suiteAgg.state.preds), SumSeq(suiteAgg.state.refs)))
    /\ DictGet(suiteOut.metrics, "").num > 0

\* What each sub-aggregator of a suite aggregator returns on its own.
OwnOutput(agg, i) == Aggregator_compute(agg.members[i].sub)

\* The keys the sub-aggregators' entries are joined to.
JoinedKeys(agg) ==
    UNION {{JoinKey(agg.members[i].name, k) : k \in DictKeys(OwnOutput(agg, i).metrics)} :
              i \in 1..Len(agg.members)}

\* The sub-aggregators, by position, that have an entry joined to a key.
Suppliers(agg, key) ==
    {i \in 1..Len(agg.members) :
        \E k \in DictKeys(OwnOutput(agg, i).metrics) : JoinKey(agg.members[i].name, k) = key}

\* The extra closure's part: it is handed the dictionary of its own suite,
\* and what it returns is merged in afterwards, overriding on collision.
ExtraMergedAfterwards ==
    (suitePc = "computed" /\ suiteAgg.kind = "extra" /\ ~suiteOut.raised)
    => LET joined == OwnOutput(suiteAgg, 1).metrics
           added == ApplyExtra(suiteAgg.extra, joined)
       IN /\ DictKeys(suiteOut.metrics) = DictKeys(joined) \cup DictKeys(added)
          /\ \A k \in DictKeys(added) : DictGet(suiteOut.metrics, k) = DictGet(added, k)
          /\ \A k \in DictKeys(joined) \ DictKeys(added) :
                DictGet(suiteOut.metrics, k) = DictGet(joined, k)

\* C19 as stated: the dictionary a suite aggregator's compute returns holds,
\* for every sub-suite name p and every key k of that sub-aggregator's own
\* output, its value under "p-k" (under "p" when k is empty); an extra
\* closure is applied to the joined dictionary of its own suite and its
\* output merged in afterwards, overriding on collision.
C19_EveryEntryUnderJoinedKey ==
    /\ (suitePc = "computed" /\ suiteAgg.kind = "families" /\ ~suiteOut.raised)
       => \A i \in 1..Len(suiteAgg.members) :
             \A k \in DictKeys(OwnOutput(suiteAgg, i).metrics) :
                /\ JoinKey(suiteAgg.members[i].name, k) \in DictKeys(suiteOut.metrics)
                /\ DictGet(suiteOut.metrics, JoinKey(suiteAgg.members[i].name, k))
                     = DictGet(OwnOutput(suiteAgg, i).metrics, k)
    /\ ExtraMergedAfterwards

\* C19, amended: the dictionary holds exactly the joined keys, and under
\* each the value of the last sub-suite, in dictionary order, that has an
\* entry joined to it -- every sub-suite's value when the joined keys are
\* distinct; compute raises when a sub-aggregator's does; the extra closure
\* part is as stated.
C19_LastEntryUnderJoinedKey ==
    /\ (suitePc = "computed" /\ suiteAgg.kind = "families")
       => IF \E i \in 1..Len(suiteAgg.members) : OwnOutput(suiteAgg, i).raised
          THEN suiteOut.raised
          ELSE /\ ~suiteOut.raised
               /\ DictKeys(suiteOut.metrics) = JoinedKeys(suiteAgg)
               /\ \A key \in JoinedKeys(suiteAgg) :
                     LET S == Suppliers(suiteAgg, key)
                         last == CHOOSE i \in S : \A j \in S : j <= i
                         k == CHOOSE k \in DictKeys(OwnOutput(suiteAgg, last).metrics) :
                                 JoinKey(suiteAgg.members[last].name, k) = key
                     IN DictGet(suiteOut.metrics, key) = DictGet(OwnOutput(suiteAgg, last).metrics, k)
    /\ ExtraMergedAfterwards

\* Two sub-suites with an entry joined to the same key and different values
\* under it: the output holds the later one's.
C19_Witness ==
    /\ suitePc = "computed"
    /\ suiteAgg.kind = "families"
    /\ ~suiteOut.raised
    /\ \E key \in DictKeys(suiteOut.metrics) :
          /\ Suppliers(suiteAgg, key) = {1, 2}
          /\ DictGet(suiteOut.metrics, key) # DictGet(OwnOutput(suiteAgg, 1).metrics, "b")
          /\ DictGet(suiteOut.metrics, key) = DictGet(OwnOutput(suiteAgg, 2).metrics, "")

\* ------------------------------------------------------------- decorator.py

\* A metric as derive_metric builds it: its class and the metrics it is
\* built over.
MetricOf(kind, parts) == [kind |-> kind, parts |-> parts]

NoMetric == MetricOf("none", <<>>)

\* A type as derive_metric inspects it: Variable, int or str, a
\* dataclass with its fields' types, a Union with its cases, a Collection
\* with its element type, or an Annotated type with its metric; attr is the
\* metric attribute the class carries (metric, latent_metric, or the
\* annotation), attached its value.
TypeOf(kind, args, attr, attached) ==
    [kind |-> kind, args |-> args, attr |-> attr, attached |-> attached]

VariableType == TypeOf("variable", <<>>, "latent_metric", MetricOf("function", <<>>))

IntType == TypeOf("int", <<>>, "none", NoMetric)

StrType == TypeOf("str", <<>>, "none", NoMetric)

UnionType(cases) == TypeOf("union", cases, "none", NoMetric)

DataclassType(flds) == TypeOf("record", flds, "none", NoMetric)

CollectionType(elem) == TypeOf("collection", <<elem>>, "none", NoMetric)

AnnotatedType(cls, metric) == TypeOf("annotated", <<cls>>, "annotation", metric)

\* may_be_variable(cls)
may_be_variable(cls) ==
    \/ cls.kind = "variable"
    \/ /\ cls.kind = "union"
       /\ \E i \in 1..Len(cls.args) : cls.args[i].kind = "variable"

\* dataclass_has_variable(cls)
\* (dataclass_has_variable_Transitive is the variant that also looks into
\* the fields that are dataclasses.)
RECURSIVE dataclass_has_variable_Transitive(_)
dataclass_has_variable_Transitive(cls) ==
    \/ cls.kind = "variable"
    \/ /\ cls.kind = "record"
       /\ \E i \in 1..Len(cls.args) :
             may_be_variable(cls.args[i]) \/ dataclass_has_variable_Transitive(cls.args[i])

dataclass_has_variable(cls) ==
    \/ cls.kind = "variable"
    \/ /\ cls.kind = "record"
       /\ \E i \in 1..Len(cls.args) : may_be_variable(cls.args[i])

\* derive_metric(cls, constraint); the constraint is handed down unchanged.
RECURSIVE derive_metric(_)
derive_metric(cls) ==
    CASE cls.kind = "annotated" -> cls.attached
      [] cls.kind # "annotated" /\ cls.attr = "metric" -> cls.attached
      [] cls.kind # "annotated" /\ cls.attr = "latent_metric" -> cls.attached
      [] OTHER ->
           CASE cls.kind = "record" ->
                  MetricOf("ProductMetric", [i \in 1..Len(cls.args) |-> derive_metric(cls.args[i])])
             [] cls.kind = "union" ->
                  MetricOf("UnionMetric", [i \in 1..Len(cls.args) |-> derive_metric(cls.args[i])])
             [] cls.kind = "collection" ->
                  LET elem_type == cls.args[1]
                      inner_metric == derive_metric(elem_type)
                  IN IF dataclass_has_variable(elem_type)
                     THEN MetricOf("LatentSetMatchingMetric", <<inner_metric>>)
                     ELSE MetricOf("SetMatchingMetric", <<inner_metric>>)
             [] OTHER -> MetricOf("DiscreteMetric", <<>>)

\* metametric(normalizer, constraint) applied to a class: the derived
\* metric, normalized unless the normalizer is "none", is attached as
\* latent_metric when the class has a Variable field and as metric otherwise.
class_decorator(cls, literal) ==
    LET metric == derive_metric(cls)
        normalized_metric ==
            IF literal = "none" THEN metric ELSE MetricOf("NormalizedMetric", <<metric>>)
    IN [cls EXCEPT !.attr = IF dataclass_has_variable(cls) THEN "latent_metric" ELSE "metric",
                   !.attached = normalized_metric]

NormalizerLiteral == {"none", "jaccard", "dice", "f1"}

\* The types exercised: field types without dataclasses, dataclasses of one
\* such field (decorated or not), dataclasses of up to MaxLen fields over
\* both, and as element types those, the field types, and annotated ones.
PlainFieldTypes ==
    {VariableType, IntType, UnionType(<<VariableType, StrType>>), UnionType(<<IntType, StrType>>)}

InnerDataclasses ==
    LET declared == {DataclassType(<<t>>) : t \in PlainFieldTypes}
    IN declared \cup {class_decorator(cls, "none") : cls \in declared}

Dataclasses ==
    {DataclassType(flds) :
        flds \in UNION {[1..n -> PlainFieldTypes \cup InnerDataclasses] : n \in 1..MaxLen}}

ElemTypes ==
    Dataclasses \cup PlainFieldTypes
        \cup {AnnotatedType(cls, MetricOf("function", <<>>)) : cls \in InnerDataclasses}

DeriveIdle ==
    /\ deriveElem = IntType
    /\ derivePc = "idle"
    /\ deriveOut = NoMetric

\* The element class as declared.
DeriveInit ==
    /\ deriveElem \in ElemTypes
    /\ derivePc = "declared"
    /\ deriveOut = NoMetric

\* @metametric(normalizer=...) on the element class.
Derive_class_decorator ==
    /\ derivePc = "declared"
    /\ deriveElem.kind = "record"
    /\ \E literal \in NormalizerLiteral : deriveElem' = class_decorator(deriveElem, literal)
    /\ derivePc' = "decorated"
    /\ UNCHANGED deriveOut
    /\ UNCHANGED exceptDerive

\* derive_metric(Collection[E], constraint)
Derive_derive_metric ==
    /\ derivePc \in {"declared", "decorated"}
    /\ deriveOut' = derive_metric(CollectionType(deriveElem))
    /\ derivePc' = "derived"
    /\ UNCHANGED deriveElem
    /\ UNCHANGED exceptDerive

DeriveNext ==
    \/ Derive_class_decorator
    \/ Derive_derive_metric

\* ------------------------------------------------------- derivation: the claims

\* E is Variable, or a record with a field that is Variable or a union
\* containing Variable, or a record with a field that is itself such a
\* record, transitively.
RECURSIVE ContainsVariable(_)
ContainsVariable(E) ==
    \/ E.kind = "variable"
    \/ /\ E.kind = "record"
       /\ \E i \in 1..Len(E.args) :
             \/ E.args[i].kind = "variable"
             \/ /\ E.args[i].kind = "union"
                /\ \E j \in 1..Len(E.args[i].args) : E.args[i].args[j].kind = "variable"
             \/ /\ E.args[i].kind = "record"
                /\ ContainsVariable(E.args[i])

\* The same without the transitive clause.
HasVariableField(E) ==
    \/ E.kind = "variable"
    \/ /\ E.kind = "record"
       /\ \E i \in 1..Len(E.args) :
             \/ E.args[i].kind = "variable"
             \/ /\ E.args[i].kind = "union"
                /\ \E j \in 1..Len(E.args[i].args) : E.args[i].args[j].kind = "variable"

\* C20: derive_metric on a collection type with element type E returns a
\* LatentSetMatchingMetric whenever E is Variable, or a record with a field
\* that is Variable or a union containing Variable, or a record with a field
\* that is itself such a record (transitively), and a SetMatchingMetric
\* otherwise.
C20_LatentIffContainsVariable ==
    derivePc = "derived"
    => deriveOut.kind =
          IF ContainsVariable(deriveElem) THEN "LatentSetMatchingMetric" ELSE "SetMatchingMetric"

\* What holds instead: the same with only the record's own fields looked at.
C20_LatentIffHasVariableField ==
    derivePc = "derived"
    => deriveOut.kind =
          IF HasVariableField(deriveElem) THEN "LatentSetMatchingMetric" ELSE "SetMatchingMetric"

\* A derivation for a record whose only Variable is in a field's record.
C20_Witness ==
    /\ derivePc = "derived"
    /\ ContainsVariable(deriveElem)
    /\ ~HasVariableField(deriveElem)
    /\ deriveOut.kind = "SetMatchingMetric"

\* ------------------------------------------------- path.py: __str__ and parse

\* A Python str is the sequence of its characters; a field name of the
\* model is the TLA+ string its characters join to.
RECURSIVE Join(_)
Join(cs) == IF cs = <<>> THEN "" ELSE Head(cs) \o Join(Tail(cs))

NameChars == {"a", "b", "*"}

NameLen == 2

Chars(name) ==
    CHOOSE cs \in UNION {[1..n -> NameChars] : n \in 0..NameLen} : Join(cs) = name

\* str(i) and int(s) on the decimal numerals.
RECURSIVE Decimal(_)
Decimal(i) ==
    IF i < 0 THEN <<"-">> \o Decimal(-i)
    ELSE IF i < 10 THEN <<ToString(i)>>
    ELSE Decimal(i \div 10) \o <<ToString(i % 10)>>

IsDigit(c) == \E d \in 0..9 : ToString(d) = c

DigitOf(c) == CHOOSE d \in 0..9 : ToString(d) = c

RECURSIVE Natural(_)
Natural(t) == IF t = <<>> THEN 0 ELSE 10 * Natural(SubSeq(t, 1, Len(t) - 1)) + DigitOf(t[Len(t)])

\* int(t): the number, or ValueError when t is no numeral.
int(t) ==
    LET digits == IF t # <<>> /\ t[1] = "-" THEN Tail(t) ELSE t
    IN IF digits = <<>> \/ \E k \in 1..Len(digits) : ~IsDigit(digits[k])
       THEN [raised |-> "ValueError", value |-> 0]
       ELSE [raised |-> "", value |-> IF t[1] = "-" THEN -Natural(digits) ELSE Natural(digits)]

_index_to_int_str(i) == IF i # -1 THEN Decimal(i) ELSE <<"*">>

\* (_int_str_to_index_NoWildcard is the variant that hands every text to int.)
_int_str_to_index_NoWildcard(t) == int(t)

_int_str_to_index(t) == IF t # <<"*">> THEN int(t) ELSE [raised |-> "", value |-> -1]

\* Path.__str__
Path__str__(self) ==
    IF Len(self) = 0 THEN <<"@">>
    ELSE LET components ==
                 [k \in 1..Len(self) |->
                     IF self[k].isInt THEN <<"[">> \o _index_to_int_str(self[k].i) \o <<"]">>
                     ELSE IF k # 1 THEN <<".">> \o Chars(self[k].s)
                     ELSE Chars(self[k].s)]
         IN Concat(components)

\* Path.parse, first loop: the characters @ . [ ] are tokens of their own,
\* the runs of other characters between them are the remaining tokens.
RECURSIVE Tokens(_, _, _)
Tokens(s, t, tokens) ==
    IF s = <<>> THEN (IF t # <<>> THEN Append(tokens, t) ELSE tokens)
    ELSE IF Head(s) \in {"@", ".", "[", "]"}
    THEN Tokens(Tail(s), <<>>,
                Append(IF t # <<>> THEN Append(tokens, t) ELSE tokens, <<Head(s)>>))
    ELSE Tokens(Tail(s), Append(t, Head(s)), tokens)

\* Path.parse, second loop, from token i (0-based): what it returns, or the
\* exception tokens[i + 1] or int raise.
RECURSIVE Components(_, _, _)
Components(tokens, i, components) ==
    IF ~(i < Len(tokens)) THEN [raised |-> "", components |-> components]
    ELSE IF tokens[i + 1] = <<"@">> \/ tokens[i + 1] = <<".">>
    THEN Components(tokens, i + 1, components)
    ELSE IF tokens[i + 1] = <<"[">>
    THEN IF ~(i + 1 < Len(tokens)) THEN [raised |-> "IndexError", components |-> <<>>]
         ELSE LET index == _int_str_to_index(tokens[i + 2])
              IN IF index.raised # "" THEN [raised |-> index.raised, components |-> <<>>]
                 ELSE Components(tokens, i + 3, Append(components, Index(index.value)))
    ELSE Components(tokens, i + 1, Append(components, Field(Join(tokens[i + 1]))))

Path_parse(s) == Components(Tokens(s, <<>>, <<>>), 0, <<>>)

\* ------------------------------------ one path printed, parsed and compared

\* The components paths are built from: field names (identifiers and the
\* wildcard *) and indices (-1 is the wildcard).
PathNames == {"a", "ab", "*"}

PathIndices == {-1, 0, 7, 10}

PathItems == {Field(name) : name \in PathNames} \cup {Index(i) : i \in PathIndices}

NotParsed == [raised |-> "", components |-> <<>>]

PathIdle ==
    /\ pathP = RootPath
    /\ pathQ = RootPath
    /\ pathPc = "idle"
    /\ pathText = <<>>
    /\ pathParsed = NotParsed
    /\ pathSelects = FALSE

\* Path() twice.
PathInit ==
    /\ pathP = RootPath
    /\ pathQ = RootPath
    /\ pathPc = "built"
    /\ pathText = <<>>
    /\ pathParsed = NotParsed
    /\ pathSelects = FALSE

\* p = p.append(item)
PathAppend ==
    /\ pathPc = "built"
    /\ Len(pathP) < MaxLen
    /\ \E item \in PathItems : pathP' = append(pathP, item)
    /\ UNCHANGED <<pathQ, pathPc, pathText, pathParsed, pathSelects>>
    /\ UNCHANGED exceptPath

\* q = q.prepend(item)
PathPrepend ==
    /\ pathPc = "built"
    /\ Len(pathQ) < MaxLen
    /\ \E item \in PathItems : pathQ' = prepend(pathQ, item)
    /\ UNCHANGED <<pathP, pathPc, pathText, pathParsed, pathSelects>>
    /\ UNCHANGED exceptPath

\* s = str(p)
PathStr ==
    /\ pathPc = "built"
    /\ pathText' = Path__str__(pathP)
    /\ pathPc' = "printed"
    /\ UNCHANGED <<pathP, pathQ, pathParsed, pathSelects>>
    /\ UNCHANGED exceptPath

\* Path.parse(s)
PathParse ==
    /\ pathPc = "printed"
    /\ pathParsed' = Path_parse(pathText)
    /\ pathPc' = "parsed"
    /\ UNCHANGED <<pathP, pathQ, pathText, pathSelects>>
    /\ UNCHANGED exceptPath

\* p.selects(q)
PathSelects ==
    /\ pathPc = "built"
    /\ pathSelects' = selects(pathP, pathQ)
    /\ pathPc' = "selected"
    /\ UNCHANGED <<pathP, pathQ, pathText, pathParsed>>
    /\ UNCHANGED exceptPath

PathNext ==
    \/ PathAppend
    \/ PathPrepend
    \/ PathStr
    \/ PathParse
    \/ PathSelects

\* ------------------------------------------------------------ paths: the claims

IsWildcard(c) == IF c.isInt THEN c.i = -1 ELSE c.s = "*"

SameKind(c, d) == c.isInt = d.isInt

\* C22 as stated: p.selects(q) is true exactly when p and q have the same
\* number of components and at every position p's component equals q's or
\* is the wildcard, which matches any value at that position.
C22_SelectsIffEqualOrWildcard ==
    pathPc = "selected"
    => (pathSelects
          <=> /\ Len(pathP) = Len(pathQ)
              /\ \A k \in 1..Len(pathP) : pathP[k] = pathQ[k] \/ IsWildcard(pathP[k]))

\* C22, amended: the wildcard matches any value of its own kind -- [*] any
\* index, .* any name.
C22_SelectsIffEqualOrWildcardOfKind ==
    pathPc = "selected"
    => (pathSelects
          <=> /\ Len(pathP) = Len(pathQ)
              /\ \A k \in 1..Len(pathP) :
                    \/ pathP[k] = pathQ[k]
                    \/ IsWildcard(pathP[k]) /\ SameKind(pathP[k], pathQ[k]))

\* a[*] has been found to select a[0].
C22_Witness ==
    /\ pathPc = "selected"
    /\ pathP = <<Field("a"), Index(-1)>>
    /\ pathQ = <<Field("a"), Index(0)>>
    /\ pathSelects

\* Equal-length paths whose components agree wherever neither is a wildcard.
AgreeOffWildcards(p, q) ==
    /\ Len(p) = Len(q)
    /\ \A k \in 1..Len(p) : IsWildcard(p[k]) \/ IsWildcard(q[k]) \/ p[k] = q[k]

\* C23 as stated: a wildcard on either side matches any concrete index or
\* name at its position, so for equal-length paths that agree wherever
\* neither is a wildcard p.selects(q) holds, also when the wildcard is in q.
C23_WildcardOnEitherSide ==
    (pathPc = "selected" /\ AgreeOffWildcards(pathP, pathQ)) => pathSelects

\* C23, amended: only the selector's wildcards match; for such paths
\* p.selects(q) holds exactly when every wildcard of q stands against the
\* same wildcard in p and every wildcard of p against a component of its
\* kind.
C23_WildcardOnSelectorSide ==
    (pathPc = "selected" /\ AgreeOffWildcards(pathP, pathQ))
    => (pathSelects
          <=> \A k \in 1..Len(pathP) :
                 /\ IsWildcard(pathQ[k]) => pathP[k] = pathQ[k]
                 /\ IsWildcard(pathP[k]) => SameKind(pathP[k], pathQ[k]))

\* a[0] has been found not to select a[*].
C23_Witness ==
    /\ pathPc = "selected"
    /\ pathP = <<Field("a"), Index(0)>>
    /\ pathQ = <<Field("a"), Index(-1)>>
    /\ ~pathSelects

\* ------------------------------------------- sequence alignment: the claims

\* The order-preserving one-to-one alignments of n_x against n_y elements:
\* sets of 0-based index pairs, strictly increasing in both indices.
Alignments(n_x, n_y) ==
    {A \in SUBSET ((0..(n_x - 1)) \X (0..(n_y - 1))) :
        \A p, q \in A : p # q => \/ p[1] < q[1] /\ p[2] < q[2]
                                 \/ q[1] < p[1] /\ q[2] < p[2]}

\* The largest summed gram over the alignments.
BestAlignment(inner, x, y) ==
    LET G == gram_matrix(inner, x, y)
        totals == {PairSum(G, A) : A \in Alignments(Len(x), Len(y))}
    IN CHOOSE t \in totals : \A u \in totals : u <= t

\* C24: under 1:1, SequenceMatchingMetric.compute returns the maximum of the
\* summed gram over all order-preserving one-to-one alignments, and returns
\* 0 without error when x or y is empty.
C24_SequenceScoreIsBestAlignment ==
    (symKind = "sequence" /\ symConstraint = ONE_TO_ONE /\ symPc \in {"forward", "done"})
    => symForward = Returned(BestAlignment(symInner, symX, symY))

\* The same for a non-empty x.
C24_SequenceScoreIsBestAlignmentOfNonEmpty ==
    (/\ symKind = "sequence" /\ symConstraint = ONE_TO_ONE /\ symPc \in {"forward", "done"}
     /\ Len(symX) > 0)
    => symForward = Returned(BestAlignment(symInner, symX, symY))

\* ------------------------------------------- latent self-score: the claims

\* C25: for LatentSetMatchingMetric under each constraint, score_self(x)
\* equals compute(x, x)[0] for every collection x of records that reference
\* Variables.
C25_LatentScoreSelfIsComputeSelf ==
    (latPc = "done" /\ latY = latX /\ _all_variables(latX) # <<>>)
    => latSelf = latResult.score

\* The same under the 1:1 constraint only.
C25_LatentScoreSelfIsComputeSelfOneToOne ==
    (latPc = "done" /\ latY = latX /\ _all_variables(latX) # <<>> /\ latConstraint = ONE_TO_ONE)
    => latSelf = latResult.score

\* ------------------------------------- one call of _reachability_matrix

MaxReachNodes == 3

\* A directed graph on n nodes with the edges E.
ReachGraph(n, E) == [nodes |-> [k \in 1..n |-> k], edges |-> E]

NoMatrix == [p \in {} |-> FALSE]

ReachIdle ==
    /\ reachGraph = [nodes |-> <<>>, edges |-> {}]
    /\ reachB = NoMatrix
    /\ reachC = NoMatrix
    /\ reachPc = "idle"

\* Every directed graph on up to MaxReachNodes nodes, the empty graph, the
\* graphs with self-loops and the cyclic ones included.
ReachInit ==
    /\ \E n \in 0..MaxReachNodes :
          \E E \in SUBSET ((0..(n - 1)) \X (0..(n - 1))) : reachGraph = ReachGraph(n, E)
    /\ reachB = NoMatrix
    /\ reachC = NoMatrix
    /\ reachPc = "called"

\* a = _adjacency_matrix(graph); b = eye + a; c = b @ b
Reach_first_square ==
    /\ reachPc = "called"
    /\ LET n == Len(reachGraph.nodes)
           a == _adjacency_matrix(reachGraph)
           b == [p \in (0..(n - 1)) \X (0..(n - 1)) |-> (p[1] = p[2]) \/ a[p]]
       IN /\ reachB' = b
          /\ reachC' = BoolSquare(b, n)
    /\ reachPc' = "loop"
    /\ UNCHANGED reachGraph
    /\ UNCHANGED exceptReach

\* One turn of the loop: c differs from b, so b = c; c = b @ b.
Reach_square_again ==
    /\ reachPc = "loop"
    /\ reachC # reachB
    /\ reachB' = reachC
    /\ reachC' = BoolSquare(reachC, Len(reachGraph.nodes))
    /\ UNCHANGED <<reachGraph, reachPc>>
    /\ UNCHANGED exceptReach

\* The loop ends: np.all(c == b); return c.
Reach_return ==
    /\ reachPc = "loop"
    /\ reachC = reachB
    /\ reachPc' = "returned"
    /\ UNCHANGED <<reachGraph, reachB, reachC>>
    /\ UNCHANGED exceptReach

ReachNext ==
    \/ Reach_first_square
    \/ Reach_square_again
    \/ Reach_return

\* ------------------------------------------------- reachability: the claims

\* The nodes reachable from the nodes S by a directed path of length >= 0.
RECURSIVE ReachableFrom(_, _)
ReachableFrom(graph, S) ==
    LET T == S \cup {e[2] : e \in {d \in graph.edges : d[1] \in S}}
    IN IF T = S THEN S ELSE ReachableFrom(graph, T)

\* C26: for every finite directed graph, cyclic graphs and the empty graph
\* included, _reachability_matrix terminates, and its result R has R[i, j]
\* true if and only if node j is reachable from node i by a directed path of
\* length >= 0.
C26_ReachabilityTerminatesWithClosure ==
    /\ <>(reachPc = "returned")
    /\ [](reachPc = "returned"
            => LET n == Len(reachGraph.nodes)
               IN /\ DOMAIN reachC = (0..(n - 1)) \X (0..(n - 1))
                  /\ \A i, j \in 0..(n - 1) :
                        reachC[<<i, j>>] <=> j \in ReachableFrom(reachGraph, {i}))

\* The call has returned on a cycle through three nodes after a second
\* squaring, every node reaching every node.
C26_Witness ==
    /\ reachPc = "returned"
    /\ reachGraph.edges = {<<0, 1>>, <<1, 2>>, <<2, 0>>}
    /\ \A i, j \in 0..2 : reachC[<<i, j>>]

\* ---------------------------------- score and emitted matches: the claims

\* The summed scores of the element (non-root) matches of a matching.
ElementTotal(matching) == SumSeq([k \in 1..(Len(matching) - 1) |-> matching[k + 1].score])

RootThenElements(r) ==
    /\ Len(r.matching) >= 1
    /\ is_root(r.matching[1].pred_path) /\ is_root(r.matching[1].ref_path)
    /\ r.matching[1].score = r.score
    /\ r.score = ElementTotal(r.matching)

\* C27: for SetMatchingMetric.compute on non-empty inputs under every
\* constraint, the discrete 1:1 fast path included, the score of the emitted
\* root match equals the returned score, and the returned score equals the
\* sum of the scores of the emitted element matches.
C27_ScoreIsSumOfEmittedMatches ==
    (setPc \in {"computed", "done"} /\ Len(setX) > 0 /\ Len(setY) > 0)
    => RootThenElements(result)

\* The same off the discrete 1:1 fast path.
C27_ScoreIsSumOfEmittedMatchesOffFastPath ==
    (/\ setPc \in {"computed", "done"} /\ Len(setX) > 0 /\ Len(setY) > 0
     /\ ~(setInner.kind = "discrete" /\ setConstraint = ONE_TO_ONE))
    => RootThenElements(result)

\* -------------------------------------- lengths of sub-states: the claims

\* C28: in a multi-family aggregator, after any sequence of update_single,
\* update_batch and reset calls, including an update that aborts because one
\* family's metric raises, every sub-state holds the same number of samples.
C28_SubStatesHoldSameNumber ==
    aggKind = "multi"
    => \A f, g \in DOMAIN states :
          /\ Len(states[f].matches) = Len(states[g].matches)
          /\ Len(states[f].preds) = Len(states[g].preds)
          /\ Len(states[f].refs) = Len(states[g].refs)

\* The same while no call has raised since construction or the last reset.
C28_SubStatesHoldSameNumberWithoutAbort ==
    (aggKind = "multi" /\ \A f \in DOMAIN states : completed[f] = calls[f] /\ calls[f] = calls["a"])
    => \A f, g \in DOMAIN states :
          /\ Len(states[f].matches) = Len(states[g].matches)
          /\ Len(states[f].preds) = Len(states[g].preds)
          /\ Len(states[f].refs) = Len(states[g].refs)

\* ------------------------------------- yielded matchings: the claims

\* C29: every element yielded by iterative_max_matching is a one-to-one
\* matching in the orientation of the input matrix: the k-th element holds
\* exactly k triples (i, j, s) with 0 <= i < nx, 0 <= j < ny and
\* s = cost[i, j], no i and no j occurs in two triples, its total is the sum
\* of the s values, and (the costs being non-negative) the totals are
\* non-decreasing in k.
C29_YieldsAreMatchingsOfInput ==
    \A k \in 1..Len(hungYields) :
        LET e == hungYields[k]
            ms == e.matches
        IN /\ Len(ms) = k
           /\ \A a \in 1..k :
                 /\ ms[a][1] \in 0..(NRows(hungCost) - 1)
                 /\ ms[a][2] \in 0..(NCols(hungCost) - 1)
                 /\ ms[a][3] = Cell(hungCost, ms[a][1], ms[a][2])
           /\ \A a, b \in 1..k : a # b => ms[a][1] # ms[b][1] /\ ms[a][2] # ms[b][2]
           /\ e.total = SumSeq([a \in 1..k |-> ms[a][3]])
           /\ k > 1 => hungYields[k - 1].total <= e.total

\* A transposed run that is exhausted: a 3 x 2 matrix whose second yield
\* trades the first yield's row for two others and raises the total.
C29_Witness ==
    /\ hungPc = "exhausted"
    /\ hungTransposed
    /\ hungCost = <<<<2, 0>>, <<1, 1>>, <<1, 2>>>>
    /\ Len(hungYields) = 2
    /\ hungYields[1].matches = <<<<0, 0, 2>>>>
    /\ hungYields[2].matches = <<<<0, 0, 2>>, <<2, 1, 2>>>>

\* ------------------------------- one ILPMatchingProblem assembled and solved

\* The collections a problem is built over: records of a dataclass whose two
\* fields are both of type Union[Variable, str], one or two to a side.
R(pred, arg) == [pred |-> pred, arg |-> arg]

ILPSides ==
    {<<R(Variable("Y"), Variable("X"))>>,
     <<R(Variable("X"), Variable("X"))>>,
     <<R(Str("p"), Variable("X"))>>,
     <<R(Str("p"), Variable("X")), R(Str("p"), Variable("Y"))>>,
     <<R(Str("p"), Variable("X")), R(Str("p"), Variable("X"))>>,
     <<R(Str("p"), Str("c")), R(Str("p"), Variable("X"))>>}

\* The reachability matrices a caller passes: those of the ring prefixes
\* over n nodes.
Reachabilities(n) ==
    {_reachability_matrix([nodes |-> [i \in 1..n |-> i], edges |-> RingPrefix(n, k)])
     : k \in 0..n}

\* One LinearConstraint of self.constraints: the builder it came from, its
\* rows and the number of columns of its matrix A.
LinearConstraint(builder, rows, width) == [builder |-> builder, rows |-> rows, width |-> width]

\* ILPMatchingProblem.__init__: n_x_vars and n_y_vars.
n_x_vars(x, has_vars) == IF has_vars THEN Len(_all_variables(x)) ELSE 0

n_y_vars(y, has_vars) == IF has_vars THEN Len(_all_variables(y)) ELSE 0

\* The number of columns of the problem: len(coef) in solve.
n_columns(x, y, has_vars) ==
    Len(x) * Len(y) + n_x_vars(x, has_vars) * n_y_vars(y, has_vars)

\* "if constraint is not None: self.constraints.append(constraint)"
Appended(constraints, builder, rows, width) ==
    IF rows = <<>> THEN constraints
    ELSE Append(constraints, LinearConstraint(builder, rows, width))

ILPIdle ==
    /\ ilpX = <<>> /\ ilpY = <<>> /\ ilpGram = <<>>
    /\ ilpHasVars = FALSE
    /\ ilpConstraints = <<>>
    /\ ilpCalled = {}
    /\ ilpPc = "idle"
    /\ ilpResult = NoResult

\* ILPMatchingProblem(x, y, gram_matrix, has_vars)
ILPInit ==
    /\ ilpX \in ILPSides
    /\ ilpY \in ILPSides
    /\ ilpGram \in [1..Len(ilpX) -> [1..Len(ilpY) -> 0..1]]
    /\ ilpHasVars \in BOOLEAN
    /\ ilpConstraints = <<>>
    /\ ilpCalled = {}
    /\ ilpPc = "assembling"
    /\ ilpResult = NoResult

\* problem.add_matching_constraint(constraint_type)
ILP_add_matching_constraint ==
    /\ ilpPc = "assembling"
    /\ "matching" \notin ilpCalled
    /\ \E constraint_type \in MatchingConstraint :
          ilpConstraints' =
              Appended(ilpConstraints, "matching",
                       MatchingConstraintBuilder(Len(ilpX), Len(ilpY), constraint_type),
                       n_columns(ilpX, ilpY, ilpHasVars))
    /\ ilpCalled' = ilpCalled \cup {"matching"}
    /\ UNCHANGED <<ilpX, ilpY, ilpGram, ilpHasVars, ilpPc, ilpResult>>
    /\ UNCHANGED exceptILP

\* problem.add_variable_matching_constraint()
ILP_add_variable_matching_constraint ==
    /\ ilpPc = "assembling"
    /\ "variable" \notin ilpCalled
    /\ ilpConstraints' =
          Appended(ilpConstraints, "variable",
                   VariableMatchingConstraintBuilder(Len(ilpX), Len(ilpY),
                       n_x_vars(ilpX, ilpHasVars), n_y_vars(ilpY, ilpHasVars)),
                   n_columns(ilpX, ilpY, ilpHasVars))
    /\ ilpCalled' = ilpCalled \cup {"variable"}
    /\ UNCHANGED <<ilpX, ilpY, ilpGram, ilpHasVars, ilpPc, ilpResult>>
    /\ UNCHANGED exceptILP

\* problem.add_monotonicity_constraint(x_reachability, y_reachability): its
\* rows span the item block only.
ILP_add_monotonicity_constraint ==
    /\ ilpPc = "assembling"
    /\ "monotonicity" \notin ilpCalled
    /\ \E x_reachability \in Reachabilities(Len(ilpX)),
          y_reachability \in Reachabilities(Len(ilpY)) :
          ilpConstraints' =
              Appended(ilpConstraints, "monotonicity",
                       MonotonicityConstraintBuilder(Len(ilpX), Len(ilpY), ilpGram,
                                                     x_reachability, y_reachability),
                       Len(ilpX) * Len(ilpY))
    /\ ilpCalled' = ilpCalled \cup {"monotonicity"}
    /\ UNCHANGED <<ilpX, ilpY, ilpGram, ilpHasVars, ilpPc, ilpResult>>
    /\ UNCHANGED exceptILP

\* problem.add_latent_variable_constraint(cls): in a problem built with
\* has_vars = False the vector has no variable block, and writing the first
\* row's -1 raises IndexError.
ILP_add_latent_variable_constraint ==
    /\ ilpPc = "assembling"
    /\ "latent" \notin ilpCalled
    /\ LET rows == LatentVariableConstraintBuilder(ilpX, ilpY, ilpGram)
       IN IF rows # <<>> /\ ~ilpHasVars
          THEN /\ ilpPc' = "IndexError"
               /\ UNCHANGED ilpConstraints
          ELSE /\ ilpPc' = ilpPc
               /\ ilpConstraints' = Appended(ilpConstraints, "latent", rows,
                                             n_columns(ilpX, ilpY, ilpHasVars))
    /\ ilpCalled' = ilpCalled \cup {"latent"}
    /\ UNCHANGED <<ilpX, ilpY, ilpGram, ilpHasVars, ilpResult>>
    /\ UNCHANGED exceptILP

\* Every row of self.constraints, in order.
AllRows(constraints) == Concat([k \in 1..Len(constraints) |-> constraints[k].rows])

\* milp stacks the matrices of the constraints and raises ValueError unless
\* every one has len(c) columns.
WidthsAgree(constraints, n_cols) ==
    \A k \in 1..Len(constraints) : constraints[k].width = n_cols

\* problem.solve()
ILP_solve ==
    /\ ilpPc = "assembling"
    /\ IF WidthsAgree(ilpConstraints, n_columns(ilpX, ilpY, ilpHasVars))
       THEN /\ \E r \in ILPMatchingProblem_solve(Len(ilpX), Len(ilpY),
                           n_x_vars(ilpX, ilpHasVars), n_y_vars(ilpY, ilpHasVars),
                           ilpGram, AllRows(ilpConstraints)) :
                  ilpResult' = [score |-> r.total, matching |-> r.matching]
            /\ ilpPc' = "solved"
       ELSE /\ ilpPc' = "ValueError"
            /\ UNCHANGED ilpResult
    /\ UNCHANGED <<ilpX, ilpY, ilpGram, ilpHasVars, ilpConstraints, ilpCalled>>
    /\ UNCHANGED exceptILP

ILPNext ==
    \/ ILP_add_matching_constraint
    \/ ILP_add_variable_matching_constraint
    \/ ILP_add_monotonicity_constraint
    \/ ILP_add_latent_variable_constraint
    \/ ILP_solve

\* ------------------------------------------ ILP feasibility: the claims

\* The columns of the t block and of the whole problem.
ItemColumns == 0..(Len(ilpX) * Len(ilpY) - 1)

AllColumns == 0..(n_columns(ilpX, ilpY, ilpHasVars) - 1)

\* The candidate pairs: those with a positive gram cell.
Candidates ==
    {p \in (0..(Len(ilpX) - 1)) \X (0..(Len(ilpY) - 1)) : Cell(ilpGram, p[1], p[2]) > 0}

\* The all-zero assignment satisfies every row assembled so far.
AllZeroFeasible ==
    \A r \in 1..Len(AllRows(ilpConstraints)) : Satisfies({}, AllRows(ilpConstraints)[r])

\* No monotonicity row pairs a candidate with itself: each names two
\* different columns.
NoSelfPairedRow ==
    \A k \in 1..Len(ilpConstraints) :
        ilpConstraints[k].builder = "monotonicity"
        => \A r \in 1..Len(ilpConstraints[k].rows) :
              Cardinality(ilpConstraints[k].rows[r].plus) = 2

\* Some 0/1 point selects the pair p and no other pair and satisfies every
\* row.
SelectableAlone(p) ==
    \E pt \in SUBSET AllColumns :
        /\ pt \cap ItemColumns = {index_pair(Len(ilpY), p[1], p[2])}
        /\ \A r \in 1..Len(AllRows(ilpConstraints)) : Satisfies(pt, AllRows(ilpConstraints)[r])

\* The variable pairs that selecting p forces: the s columns of its latent
\* rows, as (x variable id, y variable id).
ForcedVariablePairs(p) ==
    LET rows == LatentRowsOfPair(ilpX, ilpY, p[1], p[2])
        base == Len(ilpX) * Len(ilpY)
        n == n_y_vars(ilpY, ilpHasVars)
    IN {<<(c - base) \div n, (c - base) % n>> : c \in UNION {rows[r].minus : r \in 1..Len(rows)}}

\* With the variable-matching rows and the latent rows both in place, the
\* pair p forces one variable of one side onto two of the other.
BindsTwice(p) ==
    /\ \E k \in 1..Len(ilpConstraints) : ilpConstraints[k].builder = "variable"
    /\ \E k \in 1..Len(ilpConstraints) : ilpConstraints[k].builder = "latent"
    /\ \E a, b \in ForcedVariablePairs(p) : a # b /\ (a[1] = b[1] \/ a[2] = b[2])

InitSet == SetInit /\ AggIdle /\ GraphIdle /\ HungIdle /\ LatIdle /\ NormIdle /\ SymIdle /\ SuiteIdle /\ DeriveIdle /\ PathIdle /\ ReachIdle /\ ILPIdle

SpecSet == InitSet /\ [][SetNext]_vars

\* An aggregator fed samples, batches and resets.
InitAgg == AggInit /\ SetIdle /\ GraphIdle /\ HungIdle /\ LatIdle /\ NormIdle /\ SymIdle /\ SuiteIdle /\ DeriveIdle /\ PathIdle /\ ReachIdle /\ ILPIdle

SpecAgg == InitAgg /\ [][AggNext]_vars

\* One graph matching evaluation and hook run from any bounded input.
InitGraph == GraphInit /\ SetIdle /\ AggIdle /\ HungIdle /\ LatIdle /\ NormIdle /\ SymIdle /\ SuiteIdle /\ DeriveIdle /\ PathIdle /\ ReachIdle /\ ILPIdle

SpecGraph == InitGraph /\ [][GraphNext]_vars

\* One run of iterative_max_matching over any bounded cost matrix.
InitHung == HungInit /\ SetIdle /\ AggIdle /\ GraphIdle /\ LatIdle /\ NormIdle /\ SymIdle /\ SuiteIdle /\ DeriveIdle /\ PathIdle /\ ReachIdle /\ ILPIdle

SpecHung == InitHung /\ [][HungNext]_vars

InitLat == LatInit /\ SetIdle /\ AggIdle /\ GraphIdle /\ HungIdle /\ NormIdle /\ SymIdle /\ SuiteIdle /\ DeriveIdle /\ PathIdle /\ ReachIdle /\ ILPIdle

SpecLat == InitLat /\ [][LatNext]_vars

InitNorm == NormInit /\ SetIdle /\ AggIdle /\ GraphIdle /\ HungIdle /\ LatIdle /\ SymIdle /\ SuiteIdle /\ DeriveIdle /\ PathIdle /\ ReachIdle /\ ILPIdle

SpecNorm == InitNorm /\ [][NormNext]_vars

InitSym == SymInit /\ SetIdle /\ AggIdle /\ GraphIdle /\ HungIdle /\ LatIdle /\ NormIdle /\ SuiteIdle /\ DeriveIdle /\ PathIdle /\ ReachIdle /\ ILPIdle

SpecSym == InitSym /\ [][SymNext]_vars

InitSuite ==
    SuiteInit /\ SetIdle /\ AggIdle /\ GraphIdle /\ HungIdle /\ LatIdle /\ NormIdle /\ SymIdle
        /\ DeriveIdle /\ PathIdle /\ ReachIdle /\ ILPIdle

SpecSuite == InitSuite /\ [][SuiteNext]_vars

InitDerive ==
    DeriveInit /\ SetIdle /\ AggIdle /\ GraphIdle /\ HungIdle /\ LatIdle /\ NormIdle /\ SymIdle
        /\ SuiteIdle /\ PathIdle /\ ReachIdle /\ ILPIdle

SpecDerive == InitDerive /\ [][DeriveNext]_vars

InitPath ==
    PathInit /\ SetIdle /\ AggIdle /\ GraphIdle /\ HungIdle /\ LatIdle /\ NormIdle /\ SymIdle /\ SuiteIdle /\ DeriveIdle /\ ReachIdle /\ ILPIdle

SpecPath == InitPath /\ [][PathNext]_vars

InitReach ==
    ReachInit /\ SetIdle /\ AggIdle /\ GraphIdle /\ HungIdle /\ LatIdle /\ NormIdle /\ SymIdle /\ SuiteIdle /\ DeriveIdle /\ PathIdle /\ ILPIdle

SpecReach == InitReach /\ [][ReachNext]_vars

\* The same with the call always allowed to take its next step.
SpecReachFair == InitReach /\ [][ReachNext]_vars /\ WF_vars(ReachNext)

InitILP ==
    ILPInit /\ SetIdle /\ AggIdle /\ GraphIdle /\ HungIdle /\ LatIdle /\ NormIdle /\ SymIdle /\ SuiteIdle /\ DeriveIdle /\ PathIdle /\ ReachIdle

SpecILP == InitILP /\ [][ILPNext]_vars

====
